---- MODULE Spec2Model ----
(***************************************************************************)
(* GlowBookAPI: the WhatsApp booking pipeline (webhook controller),        *)
(* the notification dispatcher (WhatsApp service) and the REST handlers    *)
(* for profiles and appointments, over a document store.                   *)
(*                                                                         *)
(* Strings are sequences of one-character strings, so that prefix tests,   *)
(* substring tests, case folding, number parsing and date formatting are   *)
(* computed the way the JavaScript computes them.  Instants are minutes    *)
(* since 1970-01-01T00:00Z; the server's zone is a fixed offset tz (local  *)
(* time = UTC + tz).                                                       *)
(***************************************************************************)
EXTENDS Integers, Sequences, FiniteSets, TLC

VARIABLES
  env,           \* process.env: the configured tokens
  tz,            \* the server's UTC offset in minutes
  now,           \* the current instant (minutes since the epoch, UTC)
  profiles,      \* collection businessProfiles: owner uid -> document
  appointments,  \* collection appointments: document id -> document
  authUsers,     \* Firebase Auth: uid -> the account with its custom claims
  users,         \* collection users: uid -> document
  pending,       \* the deleteUser call that waits for its batch, if any
  inFlight,      \* the service requests that have read the profile and not yet written
  last           \* what the last operation was given, answered, sent and wrote

vars == <<env, tz, now, profiles, appointments, authUsers, users, pending, inFlight,
          last>>

\* a string as the sequence of its characters, each a string of length 1
Str(s) == [i \in 1..Len(s) |-> SubSeq(s, i, i)]
Sp == <<" ">>

\* const name = v; ...: the value v under the name of F's parameter
Let(v, F(_)) == F(v)

Min(S) == CHOOSE x \in S : \A z \in S : x <= z

\* words joined by single spaces: the text of a message
RECURSIVE Words(_)
Words(ws) ==
  IF Len(ws) = 0 THEN <<>>
  ELSE IF Len(ws) = 1 THEN Str(ws[1])
  ELSE Str(ws[1]) \o Sp \o Words(Tail(ws))

(***************************************************************************)
(* String operations of JavaScript                                         *)
(***************************************************************************)
UpperCase == <<"A","B","C","D","E","F","G","H","I","J","K","L","M",
               "N","O","P","Q","R","S","T","U","V","W","X","Y","Z">>
LowerCase == <<"a","b","c","d","e","f","g","h","i","j","k","l","m",
               "n","o","p","q","r","s","t","u","v","w","x","y","z">>
DigitChars == <<"0","1","2","3","4","5","6","7","8","9">>

DigitSet == {DigitChars[i] : i \in 1..10}
LowerSet == {LowerCase[i] : i \in 1..26}
UpperSet == {UpperCase[i] : i \in 1..26}

IsDigit(c) == c \in DigitSet
IsLower(c) == c \in LowerSet
IsUpper(c) == c \in UpperSet
IsWordChar(c) == IsLower(c) \/ IsUpper(c)

LowerMap == [c \in UpperSet |-> LowerCase[CHOOSE i \in 1..26 : UpperCase[i] = c]]

LowerCh(c) == IF c \in UpperSet THEN LowerMap[c] ELSE c

\* String.prototype.toLowerCase
toLowerCase(s) == [i \in 1..Len(s) |-> LowerCh(s[i])]

\* String.prototype.startsWith
startsWith(s, p) == Len(p) <= Len(s) /\ SubSeq(s, 1, Len(p)) = p

endsWith(s, p) == Len(p) <= Len(s) /\ SubSeq(s, Len(s) - Len(p) + 1, Len(s)) = p

\* String.prototype.includes
includes(s, p) ==
  \E i \in 1..(Len(s) + 1) :
    i + Len(p) - 1 <= Len(s) /\ SubSeq(s, i, i + Len(p) - 1) = p

\* String.prototype.replace(p, ''), p a string: the first occurrence goes
replaceFirst(s, p) ==
  IF ~includes(s, p) THEN s
  ELSE Let(CHOOSE k \in 1..(Len(s) + 1) :
             /\ k + Len(p) - 1 <= Len(s)
             /\ SubSeq(s, k, k + Len(p) - 1) = p
             /\ \A j \in 1..(k - 1) : SubSeq(s, j, j + Len(p) - 1) # p,
           LAMBDA i : SubSeq(s, 1, i - 1) \o SubSeq(s, i + Len(p), Len(s)))

\* String.prototype.substring(0, n)
substring0(s, n) == SubSeq(s, 1, IF n < Len(s) THEN n ELSE Len(s))

\* String.prototype.trim, for the blank the model writes
RECURSIVE trimLeft(_)
trimLeft(s) == IF Len(s) > 0 /\ s[1] = " " THEN trimLeft(Tail(s)) ELSE s
RECURSIVE trimRight(_)
trimRight(s) ==
  IF Len(s) > 0 /\ s[Len(s)] = " " THEN trimRight(SubSeq(s, 1, Len(s) - 1)) ELSE s
trim(s) == trimRight(trimLeft(s))

\* the words of a string: what \s+ separates
RECURSIVE SkipWhile(_, _, _)
SkipWhile(s, i, blank) ==
  IF i <= Len(s) /\ ((s[i] = " ") = blank) THEN SkipWhile(s, i + 1, blank) ELSE i

RECURSIVE TokensFrom(_, _)
TokensFrom(s, i) ==
  Let(SkipWhile(s, i, TRUE), LAMBDA start :
  Let(SkipWhile(s, start, FALSE), LAMBDA end :
    IF start > Len(s) THEN <<>>
    ELSE <<SubSeq(s, start, end - 1)>> \o TokensFrom(s, end)))

Tokens(s) == TokensFrom(s, 1)

\* tokens i..j of ts, joined by single blanks
RECURSIVE JoinTokens(_, _, _)
JoinTokens(ts, i, j) ==
  IF i > j THEN <<>>
  ELSE IF i = j THEN ts[i]
  ELSE ts[i] \o Sp \o JoinTokens(ts, i + 1, j)

\* the longest prefix of s made of digits: what \d+ takes at the start
RECURSIVE LeadingDigits(_)
LeadingDigits(s) ==
  IF Len(s) > 0 /\ IsDigit(s[1]) THEN <<s[1]>> \o LeadingDigits(Tail(s)) ELSE <<>>

\* the longest prefix of s made of a-z: what [a-z]+ takes at the start
RECURSIVE LeadingLetters(_)
LeadingLetters(s) ==
  IF Len(s) > 0 /\ IsLower(s[1]) THEN <<s[1]>> \o LeadingLetters(Tail(s)) ELSE <<>>

\* the longest suffix of s made of a-z: what [a-z]+ takes at the end
RECURSIVE TrailingLetters(_)
TrailingLetters(s) ==
  IF Len(s) > 0 /\ IsLower(s[Len(s)])
  THEN TrailingLetters(SubSeq(s, 1, Len(s) - 1)) \o <<s[Len(s)]>>
  ELSE <<>>

DigitMap == [c \in DigitSet |-> (CHOOSE i \in 1..10 : DigitChars[i] = c) - 1]

DigitVal(c) == DigitMap[c]

\* parseInt(s, 10) of a string of digits
RECURSIVE parseInt(_)
parseInt(s) ==
  IF Len(s) = 0 THEN 0
  ELSE parseInt(SubSeq(s, 1, Len(s) - 1)) * 10 + DigitVal(s[Len(s)])

\* the decimal digits of n, at least w of them
RECURSIVE Decimal(_, _)
Decimal(n, w) ==
  IF n < 10 /\ w <= 1 THEN <<DigitChars[n + 1]>>
  ELSE Decimal(n \div 10, w - 1) \o <<DigitChars[(n % 10) + 1]>>

(***************************************************************************)
(* Dates: the JavaScript Date of a server whose zone is UTC + tz           *)
(***************************************************************************)
MinutesPerDay == 24 * 60

\* the day number (days since 1970-01-01) of the civil date y-m-d
DaysFromCivil(y, m, d) ==
  Let(IF m <= 2 THEN y - 1 ELSE y, LAMBDA yy :
  Let(yy \div 400, LAMBDA era :
  Let(yy - era * 400, LAMBDA yoe :
  Let(IF m > 2 THEN m - 3 ELSE m + 9, LAMBDA mp :
  Let((153 * mp + 2) \div 5 + d - 1, LAMBDA doy :
  Let(yoe * 365 + yoe \div 4 - yoe \div 100 + doy, LAMBDA doe :
    era * 146097 + doe - 719468))))))

\* the civil date <<y, m, d>> of a day number
CivilFromDays(z0) ==
  Let(z0 + 719468, LAMBDA z :
  Let(z \div 146097, LAMBDA era :
  Let(z - era * 146097, LAMBDA doe :
  Let((doe - doe \div 1460 + doe \div 36524 - doe \div 146096) \div 365, LAMBDA yoe :
  Let(doe - (365 * yoe + yoe \div 4 - yoe \div 100), LAMBDA doy :
  Let((5 * doy + 2) \div 153, LAMBDA mp :
  Let(doy - (153 * mp + 2) \div 5 + 1, LAMBDA d :
  Let(IF mp < 10 THEN mp + 3 ELSE mp - 9, LAMBDA m :
  Let(yoe + era * 400, LAMBDA y :
    <<IF m <= 2 THEN y + 1 ELSE y, m, d>>)))))))))

\* new Date(year, monthIndex, day): local midnight of that day; a month index
\* or a day out of range rolls over
NewDateLocal(year, monthIndex, day) ==
  (DaysFromCivil(year + monthIndex \div 12, (monthIndex % 12) + 1, 1) + day - 1)
    * MinutesPerDay - tz

\* date.toISOString().split('T')[0]: the UTC calendar date, YYYY-MM-DD
toISODate(t) ==
  Let(CivilFromDays(t \div MinutesPerDay), LAMBDA c :
    Decimal(c[1], 4) \o <<"-">> \o Decimal(c[2], 2) \o <<"-">> \o Decimal(c[3], 2))

\* date.setHours(0, 0, 0, 0): the local midnight of the local day of t
setHoursZero(t) == ((t + tz) \div MinutesPerDay) * MinutesPerDay - tz

\* d.setDate(today.getDate() + n): n local days later, same local clock
addDays(t, n) == t + n * MinutesPerDay

\* date.getDay(): the local weekday, 0 = Sunday
getDay(t) == (((t + tz) \div MinutesPerDay) + 4) % 7

\* date.getFullYear(): the local year
getFullYear(t) == CivilFromDays((t + tz) \div MinutesPerDay)[1]

(***************************************************************************)
(* Date parsing of the webhook controller                                  *)
(***************************************************************************)
ValidDate(t) == [valid |-> TRUE, t |-> t]
InvalidDate == [valid |-> FALSE, t |-> 0]

DaysInMonth(y, m) == DaysFromCivil(y + m \div 12, (m % 12) + 1, 1) - DaysFromCivil(y, m, 1)

\* /^\d{4}-\d{2}-\d{2}$/
IsIsoDate(s) ==
  /\ Len(s) = 10
  /\ s[5] = "-" /\ s[8] = "-"
  /\ \A i \in {1, 2, 3, 4, 6, 7, 9, 10} : IsDigit(s[i])

\* new Date(string).  A date-only ISO string is that day's midnight UTC.  Of
\* the other strings the model sends (an ordinal with a month name, weekday
\* phrases, day/month numbers with a day above 12, other words) the engine's
\* legacy parser accepts none.
DateCtor(s) ==
  IF IsIsoDate(s)
  THEN Let(parseInt(SubSeq(s, 1, 4)), LAMBDA y :
       Let(parseInt(SubSeq(s, 6, 7)), LAMBDA m :
       Let(parseInt(SubSeq(s, 9, 10)), LAMBDA d :
         IF m \in 1..12 /\ d >= 1 /\ d <= DaysInMonth(y, m)
         THEN ValidDate(DaysFromCivil(y, m, d) * MinutesPerDay)
         ELSE InvalidDate)))
  ELSE InvalidDate

\* the table months of parseDate: a name or abbreviation -> month index
MonthTable ==
  << {Str("january"), Str("jan")}, {Str("february"), Str("feb")},
     {Str("march"), Str("mar")}, {Str("april"), Str("apr")},
     {Str("may")}, {Str("june"), Str("jun")}, {Str("july"), Str("jul")},
     {Str("august"), Str("aug")},
     {Str("september"), Str("sep"), Str("sept")},
     {Str("october"), Str("oct")}, {Str("november"), Str("nov")},
     {Str("december"), Str("dec")} >>

monthsHas(name) == \E i \in 1..12 : name \in MonthTable[i]
monthsGet(name) == (CHOOSE i \in 1..12 : name \in MonthTable[i]) - 1

OrdinalSuffixes == {Str("st"), Str("nd"), Str("rd"), Str("th")}

RECURSIVE TrailingDigits(_)
TrailingDigits(s) ==
  IF Len(s) > 0 /\ IsDigit(s[Len(s)])
  THEN TrailingDigits(SubSeq(s, 1, Len(s) - 1)) \o <<s[Len(s)]>>
  ELSE <<>>

\* (\d+)(?:st|nd|rd|th)? where white space follows: the digits a word ends
\* with, an ordinal suffix allowed after them
EndDay(tok) ==
  Let(TrailingDigits(tok), LAMBDA digits :
    IF digits # <<>> THEN digits
    ELSE IF \E x \in OrdinalSuffixes : endsWith(tok, x)
         THEN TrailingDigits(SubSeq(tok, 1, Len(tok) - 2))
         ELSE <<>>)

\* /(\d+)(?:st|nd|rd|th)?\s+([a-z]+)/: the leftmost match in the lower-cased
\* string, as <<day digits, month word>>
dayMonthPattern(lower) ==
  Let(Tokens(lower), LAMBDA ts :
  Let({i \in 1..(Len(ts) - 1) :
         EndDay(ts[i]) # <<>> /\ LeadingLetters(ts[i + 1]) # <<>>}, LAMBDA I :
    IF I = {} THEN <<>>
    ELSE Let(Min(I), LAMBDA i : <<EndDay(ts[i]), LeadingLetters(ts[i + 1])>>)))

\* /([a-z]+)\s+(\d+)(?:st|nd|rd|th)?/: the leftmost match, as
\* <<month word, day digits>>
monthDayPattern(lower) ==
  Let(Tokens(lower), LAMBDA ts :
  Let({i \in 1..(Len(ts) - 1) :
         TrailingLetters(ts[i]) # <<>> /\ LeadingDigits(ts[i + 1]) # <<>>}, LAMBDA I :
    IF I = {} THEN <<>>
    ELSE Let(Min(I), LAMBDA i : <<TrailingLetters(ts[i]), LeadingDigits(ts[i + 1])>>)))

IsSep(c) == c = "/" \/ c = "-"

\* /(\d+)[\/\-](\d+)(?:[\/\-](\d+))?/: the leftmost match, as the two or
\* three digit groups
DigitRunEnd(s, p) ==
  CHOOSE e \in p..Len(s) :
    /\ \A k \in p..e : IsDigit(s[k])
    /\ (e = Len(s) \/ ~IsDigit(s[e + 1]))

\* a separator and a digit follow position e of s
SepDigitAfter(s, e) == e + 2 <= Len(s) /\ IsSep(s[e + 1]) /\ IsDigit(s[e + 2])

numericPattern(lower) ==
  Let({p \in 1..Len(lower) :
         IsDigit(lower[p]) /\ SepDigitAfter(lower, DigitRunEnd(lower, p))},
      LAMBDA Starts :
    IF Starts = {} THEN <<>>
    ELSE Let(Min(Starts), LAMBDA p :
         Let(DigitRunEnd(lower, p), LAMBDA e1 :
         Let(DigitRunEnd(lower, e1 + 2), LAMBDA e2 :
           IF SepDigitAfter(lower, e2)
           THEN << SubSeq(lower, p, e1), SubSeq(lower, e1 + 2, e2),
                   SubSeq(lower, e2 + 2, DigitRunEnd(lower, e2 + 2)) >>
           ELSE << SubSeq(lower, p, e1), SubSeq(lower, e1 + 2, e2) >>))))

\* WebhookController.parseDate: a date string of a message -> YYYY-MM-DD
parseDate(dateStr) ==
  Let(toLowerCase(dateStr), LAMBDA lower :
    IF lower = Str("today") THEN toISODate(now)
    ELSE IF lower = Str("tomorrow") THEN toISODate(addDays(now, 1))
    ELSE IF lower = Str("day after tomorrow") THEN toISODate(addDays(now, 2))
    ELSE Let(DateCtor(dateStr), LAMBDA ctor :
      IF ctor.valid THEN toISODate(ctor.t)
      ELSE Let(dayMonthPattern(lower), LAMBDA dm :
        IF dm # <<>> /\ monthsHas(dm[2])
        THEN toISODate(NewDateLocal(getFullYear(now), monthsGet(dm[2]),
                                    parseInt(dm[1])))
        ELSE Let(monthDayPattern(lower), LAMBDA md :
          IF md # <<>> /\ monthsHas(md[1])
          THEN toISODate(NewDateLocal(getFullYear(now), monthsGet(md[1]),
                                      parseInt(md[2])))
          ELSE Let(numericPattern(lower), LAMBDA nm :
            IF nm # <<>>
            THEN Let(IF Len(nm) = 3 THEN parseInt(nm[3]) ELSE 0, LAMBDA y3 :
                 Let(IF Len(nm) < 3 THEN getFullYear(now)
                     ELSE IF y3 < 100 THEN y3 + 2000 ELSE y3, LAMBDA year :
                   toISODate(NewDateLocal(year, parseInt(nm[2]) - 1,
                                          parseInt(nm[1])))))
            ELSE toISODate(now))))))

dayNames == << Str("sunday"), Str("monday"), Str("tuesday"), Str("wednesday"),
               Str("thursday"), Str("friday"), Str("saturday") >>

\* /<word>\s+(sunday|...|saturday)/: the index (0 = sunday) of the weekday
\* named after the leftmost <word>, or -1
weekdayAfter(lower, word) ==
  Let(Tokens(lower), LAMBDA ts :
  Let({i \in 1..(Len(ts) - 1) :
         /\ endsWith(ts[i], word)
         /\ \E d \in 1..7 : startsWith(ts[i + 1], dayNames[d])}, LAMBDA I :
    IF I = {} THEN -1
    ELSE Let(Min(I), LAMBDA i :
           (CHOOSE d \in 1..7 : startsWith(ts[i + 1], dayNames[d])) - 1)))

\* WebhookController.parseDateExpression: "next monday", "this friday", ...
parseDateExpression(expression) ==
  Let(toLowerCase(expression), LAMBDA lower :
  Let(weekdayAfter(lower, Str("next")), LAMBDA nextDay :
    IF nextDay >= 0
    THEN Let((nextDay + 7 - getDay(now)) % 7, LAMBDA d0 :
           toISODate(addDays(now, IF d0 = 0 THEN 7 ELSE d0)))
    ELSE Let(weekdayAfter(lower, Str("this")), LAMBDA thisDay :
      IF thisDay >= 0
      THEN toISODate(addDays(now, (thisDay - getDay(now) + 7) % 7))
      ELSE Let(DateCtor(expression), LAMBDA ctor :
        IF ctor.valid THEN toISODate(ctor.t) ELSE parseDate(expression)))))

(***************************************************************************)
(* parseBookingMessage: the three booking patterns.  A message is matched  *)
(* word by word: \s+ in the patterns is the white space between two words. *)
(***************************************************************************)
IsAmPm(s) ==
  /\ Len(s) >= 2
  /\ LowerCh(s[1]) \in {"a", "p"}
  /\ LowerCh(s[2]) = "m"

\* (\d+(?::\d+)?(?:\s*[ap]m)?) matched where the word ts[k] begins
timeCapture(ts, k) ==
  Let(ts[k], LAMBDA tok :
  Let(LeadingDigits(tok), LAMBDA hh :
  Let(SubSeq(tok, Len(hh) + 1, Len(tok)), LAMBDA r1 :
  Let(IF Len(r1) >= 2 /\ r1[1] = ":" /\ IsDigit(r1[2])
      THEN <<":">> \o LeadingDigits(Tail(r1))
      ELSE <<>>, LAMBDA mm :
  Let(SubSeq(r1, Len(mm) + 1, Len(r1)), LAMBDA r2 :
    IF IsAmPm(r2) THEN hh \o mm \o SubSeq(r2, 1, 2)
    ELSE IF r2 = <<>> /\ k < Len(ts) /\ IsAmPm(ts[k + 1])
         THEN hh \o mm \o Sp \o SubSeq(ts[k + 1], 1, 2)
         ELSE hh \o mm)))))

StartsWithDigit(tok) == Len(tok) > 0 /\ IsDigit(tok[1])

NoBooking == [matched |-> FALSE, service |-> <<>>, date |-> <<>>, time |-> <<>>]
Booking(s, d, t) == [matched |-> TRUE, service |-> s, date |-> d, time |-> t]

\* the words of ts that end with "book" (book\s+ needs white space after it)
BookAt(ts) == {i \in 1..Len(ts) : endsWith(toLowerCase(ts[i]), Str("book"))}

\* /book\s+(.+?)\s+<kw>\s+(.+?)\s+(?:at\s+)?(\d+...)/i with kw = "on" (no
\* "at" allowed) or "for": <<service, date, time>> or <<>>
keywordPattern(ts, kw, allowAt) ==
  Let(BookAt(ts), LAMBDA B :
    IF B = {} THEN <<>>
    ELSE Let(Min(B), LAMBDA i :
         Let({j \in (i + 2)..Len(ts) : toLowerCase(ts[j]) = kw}, LAMBDA J :
      IF J = {} THEN <<>>
      ELSE Let(Min(J), LAMBDA j :
           \* the word the time starts at, after a date of one word or more
           Let({k \in (j + 2)..Len(ts) :
                  \/ StartsWithDigit(ts[k])
                  \/ /\ allowAt
                     /\ toLowerCase(ts[k]) = Str("at")
                     /\ k < Len(ts)
                     /\ StartsWithDigit(ts[k + 1])}, LAMBDA K :
        IF K = {} THEN <<>>
        ELSE Let(Min(K), LAMBDA k :
               << JoinTokens(ts, i + 1, j - 1),
                  JoinTokens(ts, j + 1, k - 1),
                  timeCapture(ts, IF StartsWithDigit(ts[k]) THEN k
                                  ELSE k + 1) >>))))))

\* the relative day that starts at word j: <<number of words, days to add>>
relativeDayAt(ts, j) ==
  Let(toLowerCase(ts[j]), LAMBDA w :
    IF w = Str("today") THEN <<1, 0>>
    ELSE IF w = Str("tomorrow") THEN <<1, 1>>
    ELSE IF /\ w = Str("day") /\ j + 2 <= Len(ts)
            /\ toLowerCase(ts[j + 1]) = Str("after")
            /\ toLowerCase(ts[j + 2]) = Str("tomorrow")
         THEN <<3, 2>>
         ELSE <<>>)

\* /book\s+(.+?)\s+(today|tomorrow|day after tomorrow)\s+(?:at\s+)?(\d+...)/i:
\* <<service, days to add, time>> or <<>>
TimeAt(ts, n) ==
  IF n <= Len(ts) /\ StartsWithDigit(ts[n]) THEN n
  ELSE IF /\ n < Len(ts) /\ toLowerCase(ts[n]) = Str("at")
          /\ StartsWithDigit(ts[n + 1])
       THEN n + 1
       ELSE 0

\* a relative day starts at word j and a time follows it
RelativeDayAndTimeAt(ts, j) ==
  Let(relativeDayAt(ts, j), LAMBDA r : r # <<>> /\ TimeAt(ts, j + r[1]) > 0)

relativePattern(ts) ==
  Let(BookAt(ts), LAMBDA B :
    IF B = {} THEN <<>>
    ELSE Let(Min(B), LAMBDA i :
         Let({j \in (i + 2)..Len(ts) : RelativeDayAndTimeAt(ts, j)}, LAMBDA J :
      IF J = {} THEN <<>>
      ELSE Let(Min(J), LAMBDA j :
           Let(relativeDayAt(ts, j), LAMBDA r :
             << JoinTokens(ts, i + 1, j - 1), r[2],
                timeCapture(ts, TimeAt(ts, j + r[1])) >>)))))

\* WebhookController.parseBookingMessage
parseBookingMessage(message) ==
  Let(Tokens(message), LAMBDA ts :
  Let(keywordPattern(ts, Str("on"), FALSE), LAMBDA m1 :
    IF m1 # <<>> THEN Booking(m1[1], m1[2], m1[3])
    ELSE Let(relativePattern(ts), LAMBDA m2 :
      IF m2 # <<>>
      THEN Booking(m2[1], toISODate(addDays(now, m2[2])), m2[3])
      ELSE Let(keywordPattern(ts, Str("for"), TRUE), LAMBDA m3 :
        IF m3 # <<>>
        THEN Booking(m3[1], parseDateExpression(m3[2]), m3[3])
        ELSE NoBooking))))

(***************************************************************************)
(* Effects of one operation.  An operation is computed over a record e:    *)
(* the send attempts it has made so far (with the outcome of each), the    *)
(* appointments collection as it has written it, the number of store       *)
(* writes and of store calls, and whether an exception is propagating.     *)
(* oc[n] is the outcome of the n-th call of the messaging API, and fail    *)
(* is the store call that is rejected (0: none).                           *)
(***************************************************************************)
MaxSends == 4
MaxStoreCalls == 3

Outcomes == [1..MaxSends -> BOOLEAN]

Effects(appts) ==
  [sends |-> <<>>, appts |-> appts, writes |-> 0, calls |-> 0, threw |-> FALSE]

\* the exception, if any, has been caught
Caught(e) == [e EXCEPT !.threw = FALSE]

\* axios.post(this.apiUrl, payload): one call of the messaging API
Post(e, api, kind, to, data, oc) ==
  Let(oc[Len(e.sends) + 1], LAMBDA ok :
    [e EXCEPT !.sends = Append(@, [api |-> api, kind |-> kind, to |-> to,
                                    data |-> data, ok |-> ok]),
              !.threw = ~ok])

\* one call of the store: it is rejected when it is call number fail
StoreCall(e, fail) ==
  [e EXCEPT !.calls = @ + 1, !.threw = (e.calls + 1 = fail)]

\* WhatsAppService.sendTextMessage; kind names the text that is sent and
\* data holds the values put into it
sendTextMessage(e, to, kind, data, oc) == Post(e, "text", kind, to, data, oc)

DayNamesLong ==
  << Str("Sunday"), Str("Monday"), Str("Tuesday"), Str("Wednesday"),
     Str("Thursday"), Str("Friday"), Str("Saturday") >>
MonthNamesLong ==
  << Str("January"), Str("February"), Str("March"), Str("April"), Str("May"),
     Str("June"), Str("July"), Str("August"), Str("September"),
     Str("October"), Str("November"), Str("December") >>

\* toLocaleDateString('en', {weekday: 'long', month: 'long', day: 'numeric'})
toLocaleDateString(t) ==
  Let(CivilFromDays((t + tz) \div MinutesPerDay), LAMBDA c :
    DayNamesLong[getDay(t) + 1] \o <<",">> \o Sp \o MonthNamesLong[c[2]]
      \o Sp \o Decimal(c[3], 1))

\* WhatsAppService.parseComplexDate: a Date, or null (here: not valid)
parseComplexDate(dateStr) ==
  Let(toLowerCase(dateStr), LAMBDA lower :
  Let(dayMonthPattern(lower), LAMBDA dm :
    IF dm # <<>> /\ monthsHas(dm[2])
    THEN ValidDate(NewDateLocal(getFullYear(now), monthsGet(dm[2]),
                                parseInt(dm[1])))
    ELSE Let(monthDayPattern(lower), LAMBDA md :
      IF md # <<>> /\ monthsHas(md[1])
      THEN ValidDate(NewDateLocal(getFullYear(now), monthsGet(md[1]),
                                  parseInt(md[2])))
      ELSE Let(numericPattern(lower), LAMBDA nm :
        IF nm # <<>>
        THEN Let(IF Len(nm) = 3 THEN parseInt(nm[3]) ELSE 0, LAMBDA y3 :
             Let(IF Len(nm) < 3 THEN getFullYear(now)
                 ELSE IF y3 < 100 THEN y3 + 2000 ELSE y3, LAMBDA year :
               ValidDate(NewDateLocal(year, parseInt(nm[2]) - 1,
                                      parseInt(nm[1])))))
        ELSE Let(weekdayAfter(lower, Str("next")), LAMBDA nextDay :
          IF nextDay >= 0
          THEN Let((nextDay + 7 - getDay(now)) % 7, LAMBDA d0 :
                 ValidDate(addDays(now, IF d0 = 0 THEN 7 ELSE d0)))
          ELSE DateCtor(dateStr))))))

\* WhatsAppService.formatDateForDisplay
formatDateForDisplay(dateStr) ==
  Let(toLowerCase(dateStr), LAMBDA lower :
    IF lower = Str("today") THEN toLocaleDateString(now)
    ELSE IF lower = Str("tomorrow") THEN toLocaleDateString(addDays(now, 1))
    ELSE IF lower = Str("day after tomorrow")
         THEN toLocaleDateString(addDays(now, 2))
    ELSE Let(IF includes(dateStr, <<"T">>) \/ IsIsoDate(dateStr)
             THEN DateCtor(dateStr)
             ELSE parseComplexDate(dateStr), LAMBDA dateObj :
           IF dateObj.valid THEN toLocaleDateString(dateObj.t) ELSE dateStr))

\* the body parameters of the three appointment templates, which are also
\* the values the fall-back texts are built from
AppointmentParams(ad) ==
  <<ad.customerName, ad.serviceName, formatDateForDisplay(ad.date), ad.time>>

\* a notification without fall-back: the failure of the template is thrown
NoFallback(e, to, ad, oc) == [e EXCEPT !.threw = TRUE]

\* WhatsAppService.sendAppointmentConfirmationFallback
sendAppointmentConfirmationFallback(e, to, ad, oc) ==
  sendTextMessage(e, to, "confirmationText", AppointmentParams(ad), oc)

\* WhatsAppService.sendAppointmentConfirmation
sendAppointmentConfirmation(e, to, ad, oc) ==
  Let(Post(e, "template", "appointment_confirmation", to,
           AppointmentParams(ad), oc), LAMBDA t :
    IF t.threw
    THEN sendAppointmentConfirmationFallback(Caught(t), to, ad, oc)
    ELSE t)

\* WhatsAppService.sendAppointmentReminderFallback
sendAppointmentReminderFallback(e, to, ad, oc) ==
  sendTextMessage(e, to, "reminderText", AppointmentParams(ad), oc)

\* WhatsAppService.sendAppointmentReminder
sendAppointmentReminder(e, to, ad, oc) ==
  Let(Post(e, "template", "appointment_reminder", to,
           AppointmentParams(ad), oc), LAMBDA t :
    IF t.threw
    THEN sendAppointmentReminderFallback(Caught(t), to, ad, oc)
    ELSE t)

\* WhatsAppService.sendAppointmentCancellationFallback
sendAppointmentCancellationFallback(e, to, ad, businessPhone, oc) ==
  sendTextMessage(e, to, "cancellationText",
                  Append(AppointmentParams(ad), businessPhone), oc)

\* WhatsAppService.sendAppointmentCancellation
sendAppointmentCancellation(e, to, ad, businessPhone, oc) ==
  Let(Post(e, "template", "appointment_cancellation", to,
           Append(AppointmentParams(ad), businessPhone), oc), LAMBDA t :
    IF t.threw
    THEN sendAppointmentCancellationFallback(Caught(t), to, ad, businessPhone, oc)
    ELSE t)

(***************************************************************************)
(* The store's order of strings (by character code) and of documents       *)
(***************************************************************************)
CharOrder ==
  <<" ", "(", ")", "+", ",", "-", "/">> \o DigitChars \o <<":">>
    \o UpperCase \o <<"_">> \o LowerCase

CharCode(c) == CHOOSE i \in 1..Len(CharOrder) : CharOrder[i] = c

RECURSIVE StrLess(_, _)
StrLess(a, b) ==
  IF Len(b) = 0 THEN FALSE
  ELSE IF Len(a) = 0 THEN TRUE
  ELSE IF a[1] = b[1] THEN StrLess(Tail(a), Tail(b))
  ELSE CharCode(a[1]) < CharCode(b[1])

\* a snapshot of a collection or query is in the order of the document ids
ById(x, y) == StrLess(x, y)

(***************************************************************************)
(* WebhookController: the replies and the booking operations               *)
(***************************************************************************)
\* phone.startsWith('+') ? phone : `+${phone}`
formatPhone(phone) == IF startsWith(phone, <<"+">>) THEN phone ELSE <<"+">> \o phone

\* an apology that is sent whether or not anything has been thrown
AlwaysApologise(e, phone, kind, oc) ==
  sendTextMessage(Caught(e), phone, kind, <<>>, oc)

\* catch (error) { await whatsappService.sendTextMessage(phone, <apology>) }
CatchSend(e, phone, kind, oc) ==
  IF e.threw THEN sendTextMessage(Caught(e), phone, kind, <<>>, oc) ELSE e

\* WebhookController.sendWelcomeMessage
sendWelcomeMessage(e, phone, businessProfile, oc) ==
  sendTextMessage(e, phone, "welcome", <<businessProfile.businessName>>, oc)

\* WebhookController.sendServicesList
sendServicesList(e, phone, businessProfile, oc) ==
  Let(businessProfile.services, LAMBDA services :
    IF Len(services) = 0
    THEN sendTextMessage(e, phone, "noServices", <<businessProfile.businessName>>, oc)
    ELSE sendTextMessage(e, phone, "servicesList",
                         [i \in 1..Len(services) |-> services[i].name], oc))

WeekDays == <<"monday", "tuesday", "wednesday", "thursday", "friday", "saturday", "sunday">>

\* a line that says nothing about the day
NoInformation(workingHours, day) == [day |-> day, hours |-> Str("No information")]

\* WebhookController.sendWorkingHours: the line of one day of the week
HoursLine(workingHours, day) ==
  IF day \notin DOMAIN workingHours THEN [day |-> day, hours |-> Str("No information")]
  ELSE Let(workingHours[day], LAMBDA dayHours :
    IF dayHours.closed THEN [day |-> day, hours |-> Str("Closed")]
    ELSE [day |-> day,
          hours |-> (IF dayHours.open = <<>> THEN Str("9:00 AM") ELSE dayHours.open)
                      \o Str(" - ")
                      \o (IF dayHours.close = <<>> THEN Str("6:00 PM")
                          ELSE dayHours.close)])

\* WebhookController.sendWorkingHours
sendWorkingHours(e, phone, businessProfile, oc) ==
  Let(businessProfile.workingHours, LAMBDA workingHours :
    IF DOMAIN workingHours = {}
    THEN sendTextMessage(e, phone, "noHours", <<businessProfile.businessName>>, oc)
    ELSE sendTextMessage(e, phone, "workingHours",
                         [i \in 1..7 |-> HoursLine(workingHours, WeekDays[i])], oc))

\* orderBy('appointmentDate', 'asc').orderBy('appointmentTime', 'asc'): the
\* order of the two stored strings, and of the document ids when both agree
ByDateAndTime(appts, x, y) ==
  Let(appts[x], LAMBDA a :
  Let(appts[y], LAMBDA b :
    \/ StrLess(a.appointmentDate, b.appointmentDate)
    \/ /\ a.appointmentDate = b.appointmentDate
       /\ \/ StrLess(a.appointmentTime, b.appointmentTime)
          \/ /\ a.appointmentTime = b.appointmentTime
             /\ StrLess(x, y)))

\* the documents ids of appts, in the order ByDateAndTime
SortBy(appts, ids) ==
  [i \in 1..Cardinality(ids) |->
     CHOOSE x \in ids :
       Cardinality({y \in ids : ByDateAndTime(appts, y, x)}) = i - 1]

\* the query of checkBookingStatus and handleCancellationRequest: the
\* customer's scheduled and confirmed appointments at this parlour, by date
\* and time, five at most
UpcomingOf(appts, parlourId, formattedPhone) ==
  Let(SortBy(appts, {id \in DOMAIN appts :
                       /\ appts[id].parlourId = parlourId
                       /\ appts[id].customerPhone = formattedPhone
                       /\ appts[id].status \in {"scheduled", "confirmed"}}),
      LAMBDA all : SubSeq(all, 1, IF Len(all) < 5 THEN Len(all) ELSE 5))

\* doc.id.substring(0, 8) of each listed appointment
RefCodes(ids) == [i \in 1..Len(ids) |-> substring0(ids[i], 8)]

\* WebhookController.checkBookingStatus
checkBookingStatus(e, phone, parlourId, oc, fail) ==
  Let(StoreCall(e, fail), LAMBDA q :
    CatchSend(
      IF q.threw THEN q
      ELSE Let(UpcomingOf(q.appts, parlourId, formatPhone(phone)), LAMBDA ids :
        IF Len(ids) = 0
        THEN sendTextMessage(q, phone, "noUpcoming", <<>>, oc)
        ELSE sendTextMessage(q, phone, "upcomingList", RefCodes(ids), oc)),
      phone, "statusError", oc))

\* WebhookController.handleCancellationRequest
handleCancellationRequest(e, phone, parlourId, oc, fail) ==
  Let(StoreCall(e, fail), LAMBDA q :
    CatchSend(
      IF q.threw THEN q
      ELSE Let(UpcomingOf(q.appts, parlourId, formatPhone(phone)), LAMBDA ids :
        IF Len(ids) = 0
        THEN sendTextMessage(q, phone, "nothingToCancel", <<>>, oc)
        ELSE sendTextMessage(q, phone, "cancelList", RefCodes(ids), oc)),
      phone, "cancelRequestError", oc))

CancelNote == "Cancelled via WhatsApp by customer"

\* a test that finds no appointment cancelled
NeverCancelled(appointment) == FALSE

\* appointment.status === 'cancelled'
AlreadyCancelled(appointment) == appointment.status = "cancelled"

\* WebhookController.cancelAppointment
Referred(appts, phone, refCode, parlourId) ==
  Let(formatPhone(phone), LAMBDA formattedPhone :
    {id \in DOMAIN appts :
       /\ startsWith(id, refCode)
       /\ appts[id].parlourId = parlourId
       /\ appts[id].customerPhone = formattedPhone})

\* snapshot.forEach keeps the last document that matches
LastOf(matches) == CHOOSE x \in matches : \A y \in matches \ {x} : ById(y, x)

\* doc(appointmentId).update({status: 'cancelled', updatedAt, notes})
Cancelled(e, appointmentId) ==
  [e EXCEPT !.writes = @ + 1,
            !.appts[appointmentId].status = "cancelled",
            !.appts[appointmentId].updatedAt = now,
            !.appts[appointmentId].notes = Append(@, CancelNote)]

\* WebhookController.cancelAppointment
cancelAppointment(e, phone, refCode, parlourId, oc, fail) ==
  Let(StoreCall(e, fail), LAMBDA q :
    CatchSend(
      IF q.threw THEN q
      ELSE Let(Referred(q.appts, phone, refCode, parlourId), LAMBDA matches :
        IF matches = {}
        THEN sendTextMessage(q, phone, "refNotFound", <<>>, oc)
        ELSE Let(LastOf(matches), LAMBDA appointmentId :
             Let(q.appts[appointmentId], LAMBDA appointment :
          IF AlreadyCancelled(appointment)
          THEN sendTextMessage(q, phone, "alreadyCancelled", <<>>, oc)
          ELSE Let(StoreCall(q, fail), LAMBDA u :
            IF u.threw THEN u
            ELSE sendTextMessage(Cancelled(u, appointmentId), phone, "cancelled",
                   <<appointment.serviceName, appointment.appointmentDate,
                     appointment.appointmentTime>>, oc))))),
      phone, "cancelError", oc))

\* WebhookController.sendHelpMessage
sendHelpMessage(e, phone, businessProfile, oc) ==
  sendTextMessage(e, phone, "help", <<businessProfile.businessName>>, oc)

\* services.map(s => s.name).join(', ') || 'None'
RECURSIVE joinNames(_, _)
joinNames(services, i) ==
  IF i > Len(services) THEN <<>>
  ELSE IF i = Len(services) THEN services[i].name
  ELSE services[i].name \o Str(", ") \o joinNames(services, i + 1)

availableServices(services) ==
  IF joinNames(services, 1) = <<>> THEN Str("None") ELSE joinNames(services, 1)

\* the first service whose name contains the text, exact or not
FirstPartial(services, service) ==
  Let(toLowerCase(service), LAMBDA want :
  Let({i \in 1..Len(services) :
         includes(toLowerCase(services[i].name), want)}, LAMBDA Part :
    IF Part # {} THEN Min(Part) ELSE 0))

\* services.find(exact name) or else services.find(name includes): the
\* index of the matching service, 0 when there is none
findService(services, service) ==
  Let(toLowerCase(service), LAMBDA want :
  Let({i \in 1..Len(services) : toLowerCase(services[i].name) = want},
      LAMBDA Exact :
    IF Exact # {} THEN Min(Exact)
    ELSE Let({i \in 1..Len(services) :
                includes(toLowerCase(services[i].name), want)}, LAMBDA Part :
           IF Part # {} THEN Min(Part) ELSE 0)))

\* x || d for a number: 0 and undefined give the default
OrDefault(x, d) == IF x = 0 THEN d ELSE x

BookedNote == "Booked via WhatsApp"

\* a comparison that lets every date through
NeverPast(parsedDate) == FALSE

\* const appointmentDate = new Date(parsedDate); setHours(0, 0, 0, 0);
\* appointmentDate < today
IsPast(parsedDate) ==
  setHoursZero(DateCtor(parsedDate).t) < setHoursZero(now)

\* const appointmentData = {...} of handleBookingRequest
AppointmentData(parlourId, businessProfile, formattedPhone, matchingService, parsedDate, time) ==
  [parlourId       |-> parlourId,
   businessName    |-> businessProfile.businessName,
   serviceId       |-> matchingService.id,
   customerName    |-> Str("WhatsApp Customer (") \o formattedPhone \o <<")">>,
   customerPhone   |-> formattedPhone,
   serviceName     |-> matchingService.name,
   appointmentDate |-> parsedDate,
   appointmentTime |-> time,
   duration        |-> OrDefault(matchingService.duration, 60),
   price           |-> matchingService.price,
   status          |-> "scheduled",
   notes           |-> <<BookedNote>>,
   createdAt       |-> now,
   updatedAt       |-> now]

\* collection('appointments').add(data): the store gives the document newId
Added(e, newId, data) ==
  [e EXCEPT !.writes = @ + 1, !.appts = (newId :> data) @@ @]

\* WebhookController.handleBookingRequest; newId is the id that the store
\* gives the added document
handleBookingRequest(e, phone, bookingData, businessProfile, parlourId, oc, fail, newId) ==
  Let(businessProfile.services, LAMBDA services :
  Let(findService(services, bookingData.service), LAMBDA m :
    CatchSend(
      IF m = 0
      THEN sendTextMessage(e, phone, "serviceNotFound",
                           <<bookingData.service, availableServices(services)>>, oc)
      ELSE Let(parseDate(bookingData.date), LAMBDA parsedDate :
        IF IsPast(parsedDate)
        THEN sendTextMessage(e, phone, "pastDate", <<>>, oc)
        ELSE Let(AppointmentData(parlourId, businessProfile, formatPhone(phone),
                                 services[m], parsedDate, bookingData.time),
                 LAMBDA appointmentData :
             Let(StoreCall(e, fail), LAMBDA a :
          IF a.threw THEN a
          ELSE sendAppointmentConfirmation(Added(a, newId, appointmentData), phone,
                 [customerName |-> appointmentData.customerName,
                  serviceName  |-> appointmentData.serviceName,
                  date         |-> appointmentData.appointmentDate,
                  time         |-> appointmentData.appointmentTime], oc)))),
      phone, "bookingError", oc)))

\* WebhookController.handleServiceSelection
handleServiceSelection(e, phone, serviceId, businessProfile, oc) ==
  Let(businessProfile.services, LAMBDA services :
  Let({i \in 1..Len(services) : services[i].id = serviceId}, LAMBDA found :
    CatchSend(
      IF found # {}
      THEN sendTextMessage(e, phone, "datePrompt", <<services[Min(found)].name>>, oc)
      ELSE sendTextMessage(e, phone, "serviceUnavailable", <<>>, oc),
      phone, "selectionError", oc)))

\* WebhookController.handleDateSelection
handleDateSelection(e, phone, dateStr, oc) ==
  CatchSend(sendTextMessage(e, phone, "timePrompt", <<parseDate(dateStr)>>, oc),
            phone, "dateSelectionError", oc)

\* a time selection that is put into the customer's appointments
TimeKept(e, phone, timeStr, oc) ==
  sendTextMessage(
    [e EXCEPT !.writes = @ + 1,
              !.appts = [id \in DOMAIN @ |-> [@[id] EXCEPT !.appointmentTime = timeStr]]],
    phone, "confirmPrompt", <<timeStr>>, oc)

\* WebhookController.handleTimeSelection
handleTimeSelection(e, phone, timeStr, oc) ==
  CatchSend(sendTextMessage(e, phone, "confirmPrompt", <<timeStr>>, oc),
            phone, "timeSelectionError", oc)

\* WebhookController.confirmBooking; doc('') is rejected by the store client
Confirmed(e, bookingRef) ==
  [e EXCEPT !.writes = @ + 1,
            !.appts[bookingRef].status = "confirmed",
            !.appts[bookingRef].updatedAt = now]

\* WebhookController.confirmBooking; doc('') is rejected by the store client
confirmBooking(e, phone, bookingRef, oc, fail) ==
  CatchSend(
    IF bookingRef = <<>> THEN [e EXCEPT !.threw = TRUE]
    ELSE Let(StoreCall(e, fail), LAMBDA g :
      IF g.threw THEN g
      ELSE IF bookingRef \notin DOMAIN g.appts
      THEN sendTextMessage(g, phone, "bookingNotFound", <<>>, oc)
      ELSE Let(g.appts[bookingRef], LAMBDA appointment :
           Let(StoreCall(g, fail), LAMBDA u :
        IF u.threw THEN u
        ELSE sendTextMessage(Confirmed(u, bookingRef), phone, "bookingConfirmed",
               <<appointment.serviceName, appointment.appointmentDate,
                 appointment.appointmentTime>>, oc)))),
    phone, "confirmError", oc)

\* WebhookController.cancelBookingRequest
cancelBookingRequest(e, phone, oc) ==
  CatchSend(sendTextMessage(e, phone, "requestCancelled", <<>>, oc),
            phone, "requestCancelError", oc)

(***************************************************************************)
(* WebhookController: the dispatch of one inbound message.  A message is   *)
(* [from, type, body, kind]: body is the text body, the button payload or  *)
(* the id of the interactive reply (empty when the message has none), and  *)
(* kind the type of an interactive reply ("" when the message has no       *)
(* interactive part).                                                      *)
(***************************************************************************)
\* WebhookController.processTextMessage
processTextMessage(e, message, businessProfile, parlourId, oc, fail, newId) ==
  IF message.body = <<>> THEN e
  ELSE
  Let(message.from, LAMBDA fromNumber :
  Let(trim(message.body), LAMBDA messageText :
  Let(toLowerCase(messageText), LAMBDA lowerText :
    IF lowerText \in {Str("hi"), Str("hello"), Str("hey")}
    THEN sendWelcomeMessage(e, fromNumber, businessProfile, oc)
    ELSE IF lowerText \in {Str("services"), Str("menu")}
    THEN sendServicesList(e, fromNumber, businessProfile, oc)
    ELSE IF lowerText \in {Str("hours"), Str("timing"), Str("timings")}
    THEN sendWorkingHours(e, fromNumber, businessProfile, oc)
    ELSE IF lowerText \in {Str("status"), Str("my booking"), Str("my appointment")}
    THEN checkBookingStatus(e, fromNumber, parlourId, oc, fail)
    ELSE IF lowerText = Str("cancel")
    THEN handleCancellationRequest(e, fromNumber, parlourId, oc, fail)
    ELSE IF lowerText = Str("help")
    THEN sendHelpMessage(e, fromNumber, businessProfile, oc)
    ELSE Let(parseBookingMessage(messageText), LAMBDA bookingData :
      IF bookingData.matched
      THEN handleBookingRequest(e, fromNumber, bookingData, businessProfile,
                                parlourId, oc, fail, newId)
      ELSE sendTextMessage(e, fromNumber, "vocabulary",
                           <<businessProfile.businessName>>, oc)))))

\* WebhookController.processButtonMessage
processButtonMessage(e, message, businessProfile, parlourId, oc, fail) ==
  Let(message.body, LAMBDA payload :
  Let(message.from, LAMBDA fromNumber :
    IF payload = <<>> THEN e
    ELSE IF startsWith(payload, Str("BOOK_SERVICE_"))
    THEN handleServiceSelection(e, fromNumber,
           replaceFirst(payload, Str("BOOK_SERVICE_")), businessProfile, oc)
    ELSE IF startsWith(payload, Str("CANCEL_APPOINTMENT_"))
    THEN cancelAppointment(e, fromNumber,
           replaceFirst(payload, Str("CANCEL_APPOINTMENT_")), parlourId, oc, fail)
    ELSE IF payload = Str("VIEW_SERVICES")
    THEN sendServicesList(e, fromNumber, businessProfile, oc)
    ELSE IF payload = Str("VIEW_HOURS")
    THEN sendWorkingHours(e, fromNumber, businessProfile, oc)
    ELSE sendTextMessage(e, fromNumber, "unknownSelection", <<>>, oc)))

\* WebhookController.processInteractiveMessage
processInteractiveMessage(e, message, businessProfile, parlourId, oc, fail) ==
  Let(message.body, LAMBDA id :
  Let(message.from, LAMBDA fromNumber :
    IF message.kind = "list_reply"
    THEN IF startsWith(id, Str("SERVICE_"))
         THEN handleServiceSelection(e, fromNumber,
                replaceFirst(id, Str("SERVICE_")), businessProfile, oc)
         ELSE IF startsWith(id, Str("DATE_"))
         THEN handleDateSelection(e, fromNumber, replaceFirst(id, Str("DATE_")), oc)
         ELSE IF startsWith(id, Str("TIME_"))
         THEN handleTimeSelection(e, fromNumber, replaceFirst(id, Str("TIME_")), oc)
         ELSE e
    ELSE IF message.kind = "button_reply"
    THEN IF startsWith(id, Str("CONFIRM_"))
         THEN confirmBooking(e, fromNumber, replaceFirst(id, Str("CONFIRM_")), oc, fail)
         ELSE IF startsWith(id, Str("CANCEL_"))
         THEN cancelBookingRequest(e, fromNumber, oc)
         ELSE e
    ELSE e))

\* the profiles whose whatsappNumber is the phone_number_id of the metadata
ProfilesOf(phoneNumberId) ==
  {uid \in DOMAIN profiles : profiles[uid].whatsappNumber = phoneNumberId}

\* WebhookController.processMessage; parlourId is the one profile that the
\* query (limit 1) returns when there is any
processMessage(e, message, phoneNumberId, parlourId, oc, fail, newId) ==
  Let(StoreCall(e, fail), LAMBDA q :
  Let(profiles[parlourId], LAMBDA businessProfile :
    \* catch: the apology is sent inside its own try/catch
    Caught(CatchSend(
      IF q.threw THEN q
      ELSE IF ProfilesOf(phoneNumberId) = {}
      THEN sendTextMessage(q, message.from, "notRegistered", <<>>, oc)
      ELSE IF message.type = "text"
      THEN processTextMessage(q, message, businessProfile, parlourId, oc, fail, newId)
      ELSE IF message.type = "button"
      THEN processButtonMessage(q, message, businessProfile, parlourId, oc, fail)
      ELSE IF message.type = "interactive"
      THEN processInteractiveMessage(q, message, businessProfile, parlourId, oc, fail)
      ELSE sendTextMessage(q, message.from, "unsupportedType", <<>>, oc),
      message.from, "genericError", oc))))

(***************************************************************************)
(* The bounded world: owners, catalog, channel identifiers, document ids,  *)
(* the zones of the server and the instants of a run                       *)
(***************************************************************************)
Uids == {"u1", "u2"}

\* the zones a server runs in: New York (winter), UTC, India
Zones == {0 - 300, 0, 330}

\* 2025-05-14T01:00Z, a Wednesday (in New York still Tuesday evening)
StartOfRun == DaysFromCivil(2025, 5, 14) * MinutesPerDay + 60

\* the clock advances by steps of 22 hours, MaxTicks times at most: the
\* second instant is 23:00Z, when in India the next day has begun
TickMinutes == 22 * 60
MaxTicks == 1

\* the appointments collection holds MaxAppts documents at most
MaxAppts == 2

\* the notes of an appointment hold MaxNotes lines at most
MaxNotes == 3

\* the ids the store gives to added appointments; two share a reference code
ApptIds == {Str("ab12cd34x"), Str("ab12cd34y"), Str("ef56gh78z")}

Service(id, name, duration, price) ==
  [id |-> Str(id), name |-> name, duration |-> duration, price |-> price]

Catalog ==
  << Service("s1", Words(<<"Hair", "Spa">>), 0, 900),
     Service("s2", Str("Haircut"), 30, 200),
     Service("s3", Str("Massage"), 45, 500) >>

DayHours(closed, open, close) == [closed |-> closed, open |-> open, close |-> close]

Hours ==
  ("monday" :> DayHours(FALSE, Str("10am"), <<>>)) @@
  ("sunday" :> DayHours(TRUE, <<>>, <<>>))

NoDocs == [x \in {} |-> x]

\* the profile document that saveProfile writes
Profile(businessName, whatsappNumber, services, workingHours) ==
  [businessName |-> businessName, whatsappNumber |-> whatsappNumber,
   services |-> services, workingHours |-> workingHours]

NoMessage == [from |-> <<>>, type |-> "", body |-> <<>>, kind |-> ""]
Message(from, type, body, kind) ==
  [from |-> from, type |-> type, body |-> body, kind |-> kind]
TextMessage(from, ws) == Message(from, "text", Words(ws), "")

\* what an operation leaves in last
Done(op, req, status, reply, e) ==
  [op |-> op, req |-> req, status |-> status, reply |-> reply,
   sends |-> e.sends, writes |-> e.writes]

\* the messaging API fails until its k-th call, which succeeds
FirstOkAt(k) == [n \in 1..MaxSends |-> n >= k]
SendOutcomes == {FirstOkAt(k) : k \in 1..(MaxSends + 1)}

\* every call succeeds; the first call fails; every call fails
SomeOutcomes == {FirstOkAt(1), FirstOkAt(2), FirstOkAt(MaxSends + 1)}

StoreFailures == 0..MaxStoreCalls

Unset == "undefined"

\* the account that auth.createUser makes, with the claims of
\* auth.setCustomUserClaims
userRecord(email, displayName, role, plan) ==
  [email |-> email, displayName |-> displayName,
   customClaims |-> [role |-> role, plan |-> plan]]

\* the document of the collection users
User(email, fullName, role, plan) ==
  [email |-> email, fullName |-> fullName, role |-> role, plan |-> plan]

EmailOf(uid) == uid \o "@glow"

NoCall == [id |-> "", snapshot |-> {}]

\* every owner of the run has registered
InitWith(tokens, zones, docs) ==
  /\ env \in tokens
  /\ tz \in zones
  /\ now = StartOfRun
  /\ profiles = docs
  /\ appointments = NoDocs
  /\ authUsers = [uid \in Uids |-> userRecord(EmailOf(uid), "Owner", "parlourOwner", "free")]
  /\ users = [uid \in Uids |-> User(EmailOf(uid), "Owner", "parlourOwner", "free")]
  /\ pending = NoCall
  /\ inFlight = {}
  /\ last = Done("start", [none |-> TRUE], 0, <<>>, Effects(NoDocs))

Tokens2(verify, api) == [WEBHOOK_VERIFY_TOKEN |-> verify, WHATSAPP_API_TOKEN |-> api]

\* one parlour, registered with the channel identifier +7
OneParlour == "u1" :> Profile(Words(<<"Glow", "Salon">>), Str("+7"), Catalog, Hours)

(***************************************************************************)
(* Actions                                                                 *)
(***************************************************************************)
\* time passes
Tick ==
  /\ now < StartOfRun + MaxTicks * TickMinutes
  /\ now' = now + TickMinutes
  /\ last' = Done("tick", [none |-> TRUE], 0, <<>>, Effects(NoDocs))
  /\ UNCHANGED <<authUsers, users, pending, inFlight, env, tz, profiles, appointments>>

\* stands for the id of a document that is not added
NoId == <<>>

\* the effects e of processMessage become the state; newId is an id, and not
\* NoId, exactly when a document has been added
Handled(message, phoneNumberId, fail, newId, e) ==
  /\ (newId \in DOMAIN e.appts) = (newId # NoId)
  /\ Cardinality(DOMAIN e.appts) <= MaxAppts
  /\ \A id \in DOMAIN e.appts : Len(e.appts[id].notes) <= MaxNotes
  /\ appointments' = e.appts
  /\ last' = Done("processMessage",
                  [message |-> message, phone_number_id |-> phoneNumberId,
                   fail |-> fail],
                  0, <<>>, e)

\* processMessage(message, metadata) for one inbound message; the store
\* gives an added document any id of Ids that is not in use
ProcessMessage(Msgs, Channels, Outs, Fails, Ids) ==
  \E message \in Msgs, phoneNumberId \in Channels, oc \in Outs,
     fail \in Fails, parlourId \in Uids,
     newId \in (Ids \ DOMAIN appointments) \cup {NoId} :
    /\ IF ProfilesOf(phoneNumberId) = {} THEN parlourId = "u1"
       ELSE parlourId \in ProfilesOf(phoneNumberId)
    /\ Handled(message, phoneNumberId, fail, newId,
               processMessage(Effects(appointments), message, phoneNumberId,
                              parlourId, oc, fail, newId))
    /\ UNCHANGED <<authUsers, users, pending, inFlight, env, tz, now, profiles>>

(***************************************************************************)
(* Bookings by text message                                                *)
(***************************************************************************)
\* the test message of whatsapp-webhook-test.js
OrdinalBooking ==
  TextMessage(Str("7"), <<"Book", "Haircut", "on", "15th", "May", "3", "PM">>)

\* the booking texts of a customer
BookingTexts ==
  { OrdinalBooking,
    TextMessage(Str("7"), <<"Book", "Massage", "on", "2000-01-01", "10am">>),
    TextMessage(Str("+7"), <<"book", "hair", "on", "2025-05-13", "3PM">>),
    TextMessage(Str("7"), <<"Book", "Haircut", "on", "2025-05-14", "3", "PM">>),
    TextMessage(Str("7"), <<"Book", "Facial", "on", "15th", "May", "3", "PM">>),
    TextMessage(Str("7"), <<"Book", "Hair", "Spa", "tomorrow", "at", "2:30", "PM">>) }

OneId == {Str("ab12cd34x")}

InitBook == InitWith({Tokens2("tokV", "tokA")}, Zones, OneParlour)

NextBook ==
  \/ ProcessMessage(BookingTexts, {Str("+7")}, SomeOutcomes, {0, 2}, OneId)
  \/ Tick

SpecBook == InitBook /\ [][NextBook]_vars

\* the day number of a date YYYY-MM-DD
IsoDay(s) ==
  DaysFromCivil(parseInt(SubSeq(s, 1, 4)), parseInt(SubSeq(s, 6, 7)),
                parseInt(SubSeq(s, 9, 10)))

\* req is a text message that reaches handleBookingRequest with a service of
\* the catalog and a date that resolves to a day before the current date,
\* taken in the server's zone or in UTC
PastDateBooking(req) ==
  LET b == parseBookingMessage(trim(req.message.body))
  IN /\ req.message.type = "text"
     /\ ProfilesOf(req.phone_number_id) # {}
     /\ req.fail # 1
     /\ b.matched
     /\ findService(Catalog, b.service) > 0
     /\ \/ IsoDay(parseDate(b.date)) < (now + tz) \div MinutesPerDay
        \/ IsoDay(parseDate(b.date)) < now \div MinutesPerDay

\* C1: a booking text whose service is in the catalog and whose date
\* resolves to a day before the current date is answered with the
\* "cannot book in the past" message, and the appointments collection is
\* left as it was
C1_PastDateRejected ==
  [][ (last'.op = "processMessage" /\ PastDateBooking(last'.req))
        => /\ Len(last'.sends) >= 1
           /\ last'.sends[1].kind = "pastDate"
           /\ last'.sends[1].to = last'.req.message.from
           /\ last'.writes = 0
           /\ appointments' = appointments ]_vars

\* a past-date booking has been refused, with one appointment on the books
C1_Witness ==
  /\ last.op = "processMessage"
  /\ PastDateBooking(last.req)
  /\ last.sends[1].kind = "pastDate"
  /\ last.sends[1].ok
  /\ DOMAIN appointments # {}

\* the appointments that a step adds
NewAppointments == {id \in DOMAIN appointments' : id \notin DOMAIN appointments}

\* C2: "Book Haircut on 15th May 3 PM", Haircut being a service of the
\* catalog, creates exactly one appointment: Haircut on the 15th of May of
\* the current year at "3 PM", scheduled; and a confirmation is sent
C2_OrdinalDateBooked ==
  [][ ( /\ last'.op = "processMessage"
        /\ last'.req.message = OrdinalBooking
        /\ ProfilesOf(last'.req.phone_number_id) # {}
        /\ last'.req.fail = 0 )
        => /\ Cardinality(NewAppointments) = 1
           /\ \A id \in NewAppointments :
                /\ appointments'[id].serviceName = Str("Haircut")
                /\ appointments'[id].appointmentDate =
                     Decimal(getFullYear(now), 4) \o Str("-05-15")
                /\ appointments'[id].appointmentTime = Words(<<"3", "PM">>)
                /\ appointments'[id].status = "scheduled"
           /\ Len(last'.sends) >= 1
           /\ last'.sends[1].kind = "appointment_confirmation" ]_vars

\* the test message has been booked by a server in India: the appointment
\* is on the 14th
C2_Witness ==
  /\ last.op = "processMessage"
  /\ last.req.message = OrdinalBooking
  /\ tz = 330
  /\ \E id \in DOMAIN appointments :
       /\ appointments[id].serviceName = Str("Haircut")
       /\ appointments[id].appointmentDate = Str("2025-05-14")
       /\ appointments[id].createdAt = now

(***************************************************************************)
(* Cancellations                                                           *)
(***************************************************************************)
ButtonMessage(from, payload) == Message(from, "button", payload, "")

CancelButton(from, refCode) ==
  ButtonMessage(from, Str("CANCEL_APPOINTMENT_") \o refCode)

CancelByText == TextMessage(Str("7"), <<"cancel", "ab12cd34">>)

\* a customer books, and cancels by button and by text; another customer
\* tries the same reference code
CancelMessages ==
  { TextMessage(Str("7"), <<"Book", "Haircut", "on", "2025-05-14", "3", "PM">>),
    CancelButton(Str("7"), Str("ab12cd34")),
    CancelButton(Str("8"), Str("ab12cd34")),
    CancelButton(Str("+7"), Str("ef56gh78")),
    CancelByText,
    TextMessage(Str("7"), <<"cancel">>) }

\* two ids with the same reference code
TwinIds == {Str("ab12cd34x"), Str("ab12cd34y")}

InitCancel == InitWith({Tokens2("tokV", "tokA")}, Zones, OneParlour)

\* the store answers every call, or rejects the third (the update)
NextCancel ==
  ProcessMessage(CancelMessages, {Str("+7")},
                 {FirstOkAt(1), FirstOkAt(MaxSends + 1)}, {0, 3}, TwinIds)

SpecCancel == InitCancel /\ [][NextCancel]_vars

\* the appointment that cancelAppointment(phone, refCode, parlourId) acts on
Target(appts, phone, refCode, parlourId) ==
  LastOf(Referred(appts, phone, refCode, parlourId))

\* the number of cancellation lines in the notes of an appointment
AuditLines(appointment) ==
  Cardinality({i \in 1..Len(appointment.notes) : appointment.notes[i] = CancelNote})

\* req is a cancellation by reference, its lookups answered by the store,
\* of an appointment that is already cancelled
CancelsCancelled(req) ==
  LET payload == req.message.body
      refCode == replaceFirst(payload, Str("CANCEL_APPOINTMENT_"))
      parlourId == CHOOSE uid \in ProfilesOf(req.phone_number_id) : TRUE
  IN /\ req.message.type = "button"
     /\ startsWith(payload, Str("CANCEL_APPOINTMENT_"))
     /\ ProfilesOf(req.phone_number_id) # {}
     /\ req.fail \notin {1, 2}
     /\ Referred(appointments, req.message.from, refCode, parlourId) # {}
     /\ appointments[Target(appointments, req.message.from, refCode,
                            parlourId)].status = "cancelled"

CancelTextUnknownRef(req) ==
  LET lowerText == toLowerCase(trim(req.message.body))
      refCode   == trim(replaceFirst(lowerText, Str("cancel")))
  IN /\ req.message.type = "text"
     /\ startsWith(lowerText, Str("cancel"))
     /\ refCode # <<>>
     /\ ProfilesOf(req.phone_number_id) # {}
     /\ req.fail = 0
     /\ \A uid \in ProfilesOf(req.phone_number_id) :
          Referred(appointments, req.message.from, refCode, uid) = {}

\* C4: the text "cancel <ref>", no appointment of the business and the
\* customer having an id that starts with <ref>, is answered with the
\* "couldn't find an appointment with that reference code" message, and
\* nothing is written
C4_CancelTextNotFound ==
  [][ (last'.op = "processMessage" /\ CancelTextUnknownRef(last'.req))
        => /\ Len(last'.sends) >= 1
           /\ last'.sends[1].kind = "refNotFound"
           /\ last'.writes = 0 ]_vars

\* "cancel ab12cd34" has been answered with the list of commands
C4_Witness ==
  /\ last.op = "processMessage"
  /\ last.req.message = CancelByText
  /\ CancelTextUnknownRef(last.req)
  /\ Len(last.sends) = 1
  /\ last.sends[1].kind = "vocabulary"
  /\ last.writes = 0

(***************************************************************************)
(* The webhook endpoint /api/webhook/whatsapp.  The repository holds two   *)
(* handlers for it: the router of routes/webhook.routes.js, which app.js   *)
(* mounts, and WebhookController.handleWhatsAppWebhook, which the earlier  *)
(* router mounts for every method.                                         *)
(***************************************************************************)
Response(status, reply, e) == [status |-> status, reply |-> reply, e |-> e]

\* req.query of the verification handshake; Unset is a parameter that the
\* request does not carry
Query(mode, token, challenge) ==
  [mode |-> mode, verify_token |-> token, challenge |-> challenge]

\* the payload of a POST: body.object ("" when absent), body.entry (when
\* present, an array), entry.changes (when present, an array), and a change
\* that is null or has a field and, possibly, a value with messages
NoValue == [present |-> FALSE, messages |-> <<>>, phone_number_id |-> <<>>]
Value(messages, phoneNumberId) ==
  [present |-> TRUE, messages |-> messages, phone_number_id |-> phoneNumberId]
NullChange == [null |-> TRUE, field |-> "", value |-> NoValue]
Change(field, value) == [null |-> FALSE, field |-> field, value |-> value]
NoChanges == [hasChanges |-> FALSE, changes |-> <<>>]
Entry(changes) == [hasChanges |-> TRUE, changes |-> changes]
NoEntry(object) == [object |-> object, hasEntry |-> FALSE, entry |-> <<>>]
Body(object, entry) == [object |-> object, hasEntry |-> TRUE, entry |-> entry]

\* router.get('/whatsapp')
routeGet(query) ==
  IF query.mode = "subscribe" /\ query.verify_token = env.WHATSAPP_API_TOKEN
  THEN Response(200, Str(query.challenge), Effects(appointments))
  ELSE Response(403, Str("Forbidden"), Effects(appointments))

\* router.post('/whatsapp'); processWebhookEventAsync only logs the messages
routePost(body) ==
  IF body.object # "whatsapp_business_account"
  THEN Response(404, Str("Not Found"), Effects(appointments))
  ELSE IF \/ ~body.hasEntry
          \/ body.entry = <<>>
          \/ ~body.entry[1].hasChanges
          \/ body.entry[1].changes = <<>>
  THEN Response(400, Str("Bad Request"), Effects(appointments))
  ELSE Response(200, Str("EVENT_RECEIVED"), Effects(appointments))

\* ids are the ids that the store gives to the documents that are added, in
\* the order of their addition
NextId(ids) == IF ids = <<>> THEN NoId ELSE Head(ids)

\* the ids that the effects e have not used
Unused(ids, e) == SelectSeq(ids, LAMBDA id : id \notin DOMAIN e.appts)

\* the effects r of one more message, after the effects e of the earlier ones
Joined(e, r) ==
  [sends |-> e.sends \o r.sends, appts |-> r.appts,
   writes |-> e.writes + r.writes, calls |-> e.calls + r.calls,
   threw |-> r.threw]

\* for (const message of value.messages)
\*   await this.processMessage(message, value.metadata);
\* bound: the handler has been called as a method of the controller;
\* pick[n] is the profile that the query for channel n returns
RECURSIVE processMessages(_, _, _, _, _, _, _, _)
processMessages(e, messages, phoneNumberId, bound, pick, oc, fail, ids) ==
  IF messages = <<>> \/ e.threw THEN e
  ELSE IF ~bound THEN [e EXCEPT !.threw = TRUE]
  ELSE Let(processMessage(Effects(e.appts), Head(messages), phoneNumberId,
                          pick[phoneNumberId], oc, fail, NextId(ids)),
           LAMBDA r :
    processMessages(Joined(e, r), Tail(messages), phoneNumberId, bound, pick,
                    oc, fail, Unused(ids, r)))

\* for (const change of changes)
RECURSIVE processChanges(_, _, _, _, _, _, _)
processChanges(e, changes, bound, pick, oc, fail, ids) ==
  IF changes = <<>> \/ e.threw THEN e
  ELSE Let(Head(changes), LAMBDA change :
    IF change.null THEN [e EXCEPT !.threw = TRUE]
    ELSE IF \/ change.field # "messages"
            \/ ~change.value.present
            \/ change.value.messages = <<>>
    THEN processChanges(e, Tail(changes), bound, pick, oc, fail, ids)
    ELSE Let(processMessages(e, change.value.messages,
                             change.value.phone_number_id, bound, pick, oc,
                             fail, ids),
             LAMBDA r :
      processChanges(r, Tail(changes), bound, pick, oc, fail, Unused(ids, r))))

\* the answer of handleWhatsAppWebhook after the loop over the changes
Acknowledged(e) ==
  IF e.threw THEN Response(500, Str("error"), Caught(e))
  ELSE Response(200, Str("success"), e)

\* WebhookController.handleWhatsAppWebhook
handleWhatsAppWebhook(method, query, body, bound, pick, oc, fail, ids) ==
  IF method = "GET"
  THEN IF /\ query.mode = "subscribe"
          /\ \/ query.verify_token = env.WEBHOOK_VERIFY_TOKEN
             \/ query.verify_token = env.WHATSAPP_API_TOKEN
       THEN Response(200, Str(query.challenge), Effects(appointments))
       ELSE Response(403, Str("Forbidden"), Effects(appointments))
  ELSE IF body.object = "" \/ ~body.hasEntry
  THEN Response(400, Str("Bad Request"), Effects(appointments))
  \* body.entry[0] of an empty array is undefined
  ELSE IF body.entry = <<>>
  THEN Response(500, Str("error"), Effects(appointments))
  ELSE IF ~body.entry[1].hasChanges
  THEN Response(400, Str("Bad Request"), Effects(appointments))
  ELSE Acknowledged(processChanges(Effects(appointments), body.entry[1].changes,
                                   bound, pick, oc, fail, ids))

\* the response r of a handler of the endpoint is sent, and its effects
\* become the state; ids are the ids of the documents that have been added
Answered(op, req, r, ids) ==
  /\ {ids[i] : i \in DOMAIN ids} \ {NoId} = DOMAIN r.e.appts \ DOMAIN appointments
  /\ Cardinality(DOMAIN r.e.appts) <= MaxAppts
  /\ appointments' = r.e.appts
  /\ last' = Done(op, req, r.status, r.reply, r.e)

\* GET /api/webhook/whatsapp on the router of routes/webhook.routes.js
RouteGet(Queries) ==
  \E query \in Queries :
    /\ Answered("routeGet", [query |-> query], routeGet(query), <<>>)
    /\ UNCHANGED <<authUsers, users, pending, inFlight, env, tz, now, profiles>>

\* POST /api/webhook/whatsapp on the router of routes/webhook.routes.js
RoutePost(Bodies) ==
  \E body \in Bodies :
    /\ Answered("routePost", [body |-> body], routePost(body), <<>>)
    /\ UNCHANGED <<authUsers, users, pending, inFlight, env, tz, now, profiles>>

NoQuery == Query(Unset, Unset, "")

\* GET on the router that mounts the controller
ControllerGet(Queries) ==
  \E query \in Queries, bound \in BOOLEAN :
    /\ Answered("controllerGet", [query |-> query, bound |-> bound],
                handleWhatsAppWebhook("GET", query, NoEntry(""), bound, <<>>,
                                      FirstOkAt(1), 0, <<>>),
                <<>>)
    /\ UNCHANGED <<authUsers, users, pending, inFlight, env, tz, now, profiles>>

\* the lists of two distinct ids of S at most
IdLists(S) ==
  {<<>>} \cup {<<a>> : a \in S} \cup {<<p[1], p[2]>> : p \in {q \in S \X S : q[1] # q[2]}}

\* the channels that the messages of a payload have arrived on
ChannelsOf(body) ==
  IF body.entry = <<>> THEN {}
  ELSE {body.entry[1].changes[i].value.phone_number_id :
          i \in DOMAIN body.entry[1].changes}

\* POST on the router that mounts the controller; the store gives the
\* documents that are added ids of Ids that are not in use
ControllerPost(Bodies, Outs, Fails, Ids) ==
  \E body \in Bodies, bound \in BOOLEAN, oc \in Outs, fail \in Fails,
     ids \in IdLists(Ids \ DOMAIN appointments) :
  \E pick \in [ChannelsOf(body) -> Uids] :
    /\ \A n \in ChannelsOf(body) :
         IF ProfilesOf(n) = {} THEN pick[n] = "u1" ELSE pick[n] \in ProfilesOf(n)
    /\ Answered("controllerPost",
                [body |-> body, bound |-> bound, oc |-> oc, fail |-> fail],
                handleWhatsAppWebhook("POST", NoQuery, body, bound, pick,
                                      oc, fail, ids),
                ids)
    /\ UNCHANGED <<authUsers, users, pending, inFlight, env, tz, now, profiles>>

(***************************************************************************)
(* Requests to the endpoint                                                *)
(***************************************************************************)
Subscriptions ==
  { Query(mode, token, "c1") :
      mode \in {"subscribe", "unsubscribe", Unset},
      token \in {"tokV", "tokA", "tokX", Unset} }

HookBooking ==
  TextMessage(Str("7"), <<"Book", "Haircut", "on", "2025-05-14", "3", "PM">>)

OneMessage(message, phoneNumberId) ==
  Change("messages", Value(<<message>>, phoneNumberId))

Account == "whatsapp_business_account"

HookBodies ==
  { NoEntry(Account),
    Body("", <<Entry(<<OneMessage(HookBooking, Str("+7"))>>)>>),
    Body(Account, <<>>),
    Body(Account, <<NoChanges>>),
    Body(Account, <<Entry(<<>>)>>),
    Body(Account, <<Entry(<<NullChange>>)>>),
    Body(Account, <<Entry(<<Change("statuses", NoValue)>>)>>),
    Body(Account, <<Entry(<<Change("messages", NoValue)>>)>>),
    Body(Account, <<Entry(<<OneMessage(HookBooking, Str("+7"))>>)>>),
    Body(Account, <<Entry(<<OneMessage(HookBooking, Str("7"))>>)>>),
    Body("page", <<Entry(<<OneMessage(HookBooking, Str("+7"))>>)>>),
    Body(Account,
         <<Entry(<<Change("messages",
                          Value(<<HookBooking,
                                  CancelButton(Str("7"), Str("ab12cd34"))>>,
                                Str("+7"))),
                   NullChange>>)>>) }

\* the verification token and the API token are configured, or one of them
InitShake ==
  InitWith({Tokens2("tokV", "tokA"), Tokens2(Unset, "tokA"),
            Tokens2("tokV", Unset)},
           Zones, OneParlour)

NextShake ==
  \/ RouteGet(Subscriptions)
  \/ ControllerGet(Subscriptions)

SpecShake == InitShake /\ [][NextShake]_vars

InitHook == InitWith({Tokens2("tokV", "tokA")}, {0}, OneParlour)

NextHook ==
  \/ RoutePost(HookBodies)
  \/ ControllerPost(HookBodies, {FirstOkAt(1), FirstOkAt(MaxSends + 1)},
                    {0, 2}, OneId)

SpecHook == InitHook /\ [][NextHook]_vars

\* the payload passes the structural validation: object is present, and
\* entry is not empty and has changes
Accepted(body) ==
  /\ body.object # ""
  /\ body.hasEntry
  /\ body.entry # <<>>
  /\ body.entry[1].hasChanges
  /\ body.entry[1].changes # <<>>

\* C5: a POST to the webhook whose body passes the structural validation is
\* answered with status 200, whether or not the processing of its messages
\* fails
C5_AcceptedIs200 ==
  [][ (last'.op \in {"routePost", "controllerPost"} /\ Accepted(last'.req.body))
        => last'.status = 200 ]_vars

\* the controller, called as a method, has booked and cancelled for the
\* messages of the first change and has answered 500 at the second
C5_Witness ==
  /\ last.op = "controllerPost"
  /\ Accepted(last.req.body)
  /\ last.req.bound
  /\ last.status = 500
  /\ last.writes = 2
  /\ \E id \in DOMAIN appointments : appointments[id].status = "cancelled"

\* the handshake request carries the configured verification token
Verified(query) ==
  /\ query.mode = "subscribe"
  /\ query.verify_token # Unset
  /\ query.verify_token = env.WEBHOOK_VERIFY_TOKEN

\* C6: the verification handshake is answered with status 200 and the
\* challenge when mode is "subscribe" and verify_token is the configured
\* verification token, and with status 403 otherwise, a request without
\* verify_token included
C6_HandshakeIffToken ==
  [][ last'.op \in {"routeGet", "controllerGet"}
        => IF Verified(last'.req.query)
           THEN last'.status = 200 /\ last'.reply = Str(last'.req.query.challenge)
           ELSE last'.status = 403 ]_vars

\* the mounted router has refused the configured verification token
C6_Witness ==
  /\ last.op = "routeGet"
  /\ Verified(last.req.query)
  /\ env.WHATSAPP_API_TOKEN # Unset
  /\ last.status = 403

(***************************************************************************)
(* The three appointment notifications of WhatsAppService, called with the *)
(* data of an appointment                                                  *)
(***************************************************************************)
AppointmentInfo(customerName, serviceName, date, time) ==
  [customerName |-> customerName, serviceName |-> serviceName,
   date |-> date, time |-> time]

\* what the caller of a notification gets: the response of the messaging
\* API, or the Error that is thrown
Returned(e, failure) == IF e.threw THEN Str(failure) ELSE Str("response.data")

\* the caller has got the answer of the notification op(to, ad)
Notified(op, to, ad, businessPhone, oc, e, failure) ==
  /\ last' = Done(op, [to |-> to, ad |-> ad, businessPhone |-> businessPhone,
                       oc |-> oc],
                  0, Returned(e, failure), e)

SendAppointmentConfirmation(Tos, Ads, Outs) ==
  \E to \in Tos, ad \in Ads, oc \in Outs :
    /\ Notified("sendAppointmentConfirmation", to, ad, <<>>, oc,
                sendAppointmentConfirmation(Effects(appointments), to, ad, oc),
                "Failed to send appointment confirmation")
    /\ UNCHANGED <<authUsers, users, pending, inFlight, env, tz, now, profiles, appointments>>

SendAppointmentReminder(Tos, Ads, Outs) ==
  \E to \in Tos, ad \in Ads, oc \in Outs :
    /\ Notified("sendAppointmentReminder", to, ad, <<>>, oc,
                sendAppointmentReminder(Effects(appointments), to, ad, oc),
                "Failed to send appointment reminder")
    /\ UNCHANGED <<authUsers, users, pending, inFlight, env, tz, now, profiles, appointments>>

SendAppointmentCancellation(Tos, Ads, Phones, Outs) ==
  \E to \in Tos, ad \in Ads, businessPhone \in Phones, oc \in Outs :
    /\ Notified("sendAppointmentCancellation", to, ad, businessPhone, oc,
                sendAppointmentCancellation(Effects(appointments), to, ad,
                                            businessPhone, oc),
                "Failed to send appointment cancellation")
    /\ UNCHANGED <<authUsers, users, pending, inFlight, env, tz, now, profiles, appointments>>

Recipients == {Str("+7"), Str("7")}

\* dates as the callers pass them: the stored date, and the words of a
\* customer
SomeInfo ==
  { AppointmentInfo(Str("Customer"), Str("Haircut"), date, Words(<<"3", "PM">>)) :
      date \in {Str("2025-05-15"), Str("tomorrow"), Words(<<"15th", "May">>),
                Str("soon")} }

\* the messaging API rejects any two of the first two calls
TwoCalls == {[n \in 1..MaxSends |-> IF n = 1 THEN a ELSE b] : a, b \in BOOLEAN}

InitSend == InitWith({Tokens2("tokV", "tokA")}, Zones, OneParlour)

NextSend ==
  \/ SendAppointmentConfirmation(Recipients, SomeInfo, TwoCalls)
  \/ SendAppointmentReminder(Recipients, SomeInfo, TwoCalls)
  \/ SendAppointmentCancellation(Recipients, SomeInfo, {Str("+7")}, TwoCalls)
  \/ Tick

SpecSend == InitSend /\ [][NextSend]_vars

Notifications ==
  ("sendAppointmentConfirmation" :> "appointment_confirmation") @@
  ("sendAppointmentReminder" :> "appointment_reminder") @@
  ("sendAppointmentCancellation" :> "appointment_cancellation")

\* the name, the service, the date and the time that a send carries
Carried(send) == SubSeq(send.data, 1, 4)

ListReply(from, id) == Message(from, "interactive", id, "list_reply")
ButtonReply(from, id) == Message(from, "interactive", id, "button_reply")

TalkMessages ==
  { TextMessage(Str("7"), <<"Hi">>),
    TextMessage(Str("7"), <<"services">>),
    TextMessage(Str("7"), <<"hours">>),
    TextMessage(Str("7"), <<"status">>),
    TextMessage(Str("7"), <<"cancel">>),
    TextMessage(Str("7"), <<"help">>),
    TextMessage(Str("7"), <<"Book", "Haircut", "on", "2025-05-14", "3", "PM">>),
    TextMessage(Str("7"), <<"thanks">>),
    TextMessage(Str("7"), <<>>),
    ButtonMessage(Str("7"), Str("VIEW_HOURS")),
    ButtonMessage(Str("7"), Str("BOOK_SERVICE_s2")),
    ListReply(Str("7"), Str("SERVICE_s2")),
    ListReply(Str("7"), Str("DATE_2025-05-14")),
    ListReply(Str("7"), Str("OTHER_1")),
    ButtonReply(Str("7"), Str("CONFIRM_ab12cd34")),
    Message(Str("7"), "image", <<>>, "") }

InitTalk == InitWith({Tokens2("tokV", "tokA")}, {0}, OneParlour)

NextTalk ==
  ProcessMessage(TalkMessages, {Str("+7")}, SomeOutcomes, {0, 2}, OneId)

SpecTalk == InitTalk /\ [][NextTalk]_vars

Unanswered(message) ==
  \/ message.type \in {"text", "button"} /\ message.body = <<>>
  \/ /\ message.type = "interactive"
     /\ ~ \/ /\ message.kind = "list_reply"
              /\ \E prefix \in {Str("SERVICE_"), Str("DATE_"), Str("TIME_")} :
                   startsWith(message.body, prefix)
           \/ /\ message.kind = "button_reply"
              /\ \E prefix \in {Str("CONFIRM_"), Str("CANCEL_")} :
                   startsWith(message.body, prefix)

ProfileBody(businessName, whatsappNumber, services, workingHours) ==
  [businessName |-> businessName, whatsappNumber |-> whatsappNumber,
   services |-> services, workingHours |-> workingHours]

\* const formattedWhatsappNumber = whatsappNumber.startsWith('+') ? ...
formattedWhatsappNumber(whatsappNumber) ==
  IF startsWith(whatsappNumber, <<"+">>) THEN whatsappNumber
  ELSE <<"+">> \o whatsappNumber

Saved(status, docs) == [status |-> status, profiles |-> docs]

\* ProfileController.saveProfile; fail is the store call that is rejected:
\* the get (1) or the update or set (2)
saveProfile(uid, body, fail) ==
  IF body.businessName = <<>> \/ body.whatsappNumber = <<>>
  THEN Saved(400, profiles)
  ELSE IF fail \in {1, 2} THEN Saved(500, profiles)
  ELSE Saved(IF uid \in DOMAIN profiles THEN 200 ELSE 201,
             (uid :> Profile(body.businessName,
                             formattedWhatsappNumber(body.whatsappNumber),
                             body.services, body.workingHours)) @@ profiles)

\* the answer r of saveProfile is sent
ProfileSaved(uid, body, fail, r) ==
  /\ profiles' = r.profiles
  /\ last' = Done("saveProfile", [uid |-> uid, body |-> body, fail |-> fail],
                  r.status, <<>>, Effects(NoDocs))

\* POST /api/profile
SaveProfile(Owners, Bodies, Fails) ==
  \E uid \in Owners, body \in Bodies, fail \in Fails :
    /\ ProfileSaved(uid, body, fail, saveProfile(uid, body, fail))
    /\ UNCHANGED <<authUsers, users, pending, inFlight, env, tz, now, appointments>>

(***************************************************************************)
(* Registration of a channel, and messages on it                           *)
(***************************************************************************)
ChannelIds == {Str("7"), Str("+7"), Str("8")}

RegBodies ==
  { ProfileBody(Words(<<"Glow", "Salon">>), n, Catalog, Hours) : n \in ChannelIds }
    \cup { ProfileBody(<<>>, Str("7"), Catalog, Hours),
           ProfileBody(Str("Glow"), <<>>, Catalog, Hours) }

RegMessages ==
  { TextMessage(Str("5"), <<"Hi">>),
    TextMessage(Str("5"), <<"services">>) }

InitReg == InitWith({Tokens2("tokV", "tokA")}, {0}, NoDocs)

NextReg ==
  \/ SaveProfile(Uids, RegBodies, {0, 2})
  \/ ProcessMessage(RegMessages, ChannelIds, {FirstOkAt(1)}, {0}, {})

SpecReg == InitReg /\ [][NextReg]_vars

\* C9: when a business has registered the channel identifier N with
\* saveProfile, a message whose phone_number_id is N is not answered "this
\* number is not registered"
C9_RegisteredIsRouted ==
  [][ ( /\ last.op = "saveProfile"
        /\ last.status \in {200, 201}
        /\ last'.op = "processMessage"
        /\ last'.req.phone_number_id = last.req.body.whatsappNumber
        /\ last'.req.fail = 0 )
        => \A n \in 1..Len(last'.sends) : last'.sends[n].kind # "notRegistered" ]_vars

\* the channel 7 has been registered, and a message on channel 7 has been
\* answered that the number is not registered
C9_Witness ==
  /\ last.op = "processMessage"
  /\ last.req.phone_number_id = Str("7")
  /\ \E uid \in DOMAIN profiles : profiles[uid].whatsappNumber = Str("+7")
  /\ Len(last.sends) = 1
  /\ last.sends[1].kind = "notRegistered"

(***************************************************************************)
(* Appointments (REST, authenticated as the owner uid).  A field of a body *)
(* that is absent or empty is <<>>, or 0 for a number; customerPhone may   *)
(* be a value that is no string, price and notes may be absent.            *)
(***************************************************************************)
AppointmentBody(customerName, customerPhone, phoneIsString, serviceName, appointmentDate, appointmentTime, status) ==
  [customerId |-> <<>>, customerName |-> customerName,
   customerPhone |-> customerPhone, phoneIsString |-> phoneIsString,
   serviceId |-> <<>>, serviceName |-> serviceName,
   appointmentDate |-> appointmentDate, appointmentTime |-> appointmentTime,
   duration |-> 0, hasPrice |-> FALSE, price |-> 0,
   hasNotes |-> FALSE, notes |-> <<>>, status |-> status]

\* a phone number as it is kept by a handler that does not put the "+"
RawPhone(customerPhone) == customerPhone

\* customerPhone.startsWith('+') ? customerPhone : `+${customerPhone}`
formattedPhone(customerPhone) ==
  IF startsWith(customerPhone, <<"+">>) THEN customerPhone
  ELSE <<"+">> \o customerPhone

\* const appointmentData = {...} of createAppointment
NewAppointment(uid, body) ==
  [parlourId       |-> uid,
   businessName    |-> profiles[uid].businessName,
   customerId      |-> body.customerId,
   customerName    |-> body.customerName,
   customerPhone   |-> formattedPhone(body.customerPhone),
   serviceId       |-> body.serviceId,
   serviceName     |-> body.serviceName,
   appointmentDate |-> body.appointmentDate,
   appointmentTime |-> body.appointmentTime,
   duration        |-> OrDefault(body.duration, 60),
   price           |-> body.price,
   notes           |-> body.notes,
   status          |-> "scheduled",
   createdAt       |-> now,
   updatedAt       |-> now]

\* the data of an appointment that a notification carries
InfoOf(appointment, date, time) ==
  AppointmentInfo(appointment.customerName, appointment.serviceName, date, time)

\* AppointmentController.createAppointment
createAppointment(e, uid, body, oc, fail, newId) ==
  IF \/ body.customerName = <<>> \/ body.customerPhone = <<>>
     \/ body.serviceName = <<>> \/ body.appointmentDate = <<>>
     \/ body.appointmentTime = <<>>
  THEN Response(400, Str("Missing required fields"), e)
  \* customerPhone.startsWith is not a function
  ELSE IF ~body.phoneIsString
  THEN Response(500, Str("Failed to create appointment"), e)
  ELSE Let(StoreCall(e, fail), LAMBDA g :
    IF g.threw THEN Response(500, Str("Failed to create appointment"), Caught(g))
    ELSE IF uid \notin DOMAIN profiles
    THEN Response(404, Str("Business profile not found"), g)
    ELSE Let(StoreCall(g, fail), LAMBDA a :
      IF a.threw
      THEN Response(500, Str("Failed to create appointment"), Caught(a))
      ELSE Let(NewAppointment(uid, body), LAMBDA appointmentData :
        Response(201, Str("Appointment created successfully"),
          Caught(sendAppointmentConfirmation(
                   Added(a, newId, appointmentData),
                   appointmentData.customerPhone,
                   InfoOf(appointmentData, appointmentData.appointmentDate,
                          appointmentData.appointmentTime),
                   oc))))))

Or(x, y) == IF x # <<>> THEN x ELSE y

\* appointmentRef.update(updateData) of updateAppointment
Updated(e, id, body) ==
  [e EXCEPT !.writes = @ + 1,
            !.appts[id].updatedAt = now,
            !.appts[id].customerName = Or(body.customerName, @),
            !.appts[id].customerPhone =
               IF body.customerPhone # <<>> THEN formattedPhone(body.customerPhone)
               ELSE @,
            !.appts[id].serviceName = Or(body.serviceName, @),
            !.appts[id].appointmentDate = Or(body.appointmentDate, @),
            !.appts[id].appointmentTime = Or(body.appointmentTime, @),
            !.appts[id].duration = OrDefault(body.duration, @),
            !.appts[id].price = IF body.hasPrice THEN body.price ELSE @,
            !.appts[id].notes = IF body.hasNotes THEN body.notes ELSE @,
            !.appts[id].status = IF body.status # "" THEN body.status ELSE @]

\* the notification of updateAppointment for a change of status
StatusNotified(e, appointment, body, oc) ==
  IF body.status = "" \/ body.status = appointment.status
     \/ appointment.customerPhone = <<>>
  THEN e
  ELSE IF body.status = "confirmed"
  THEN Caught(sendAppointmentConfirmation(e, appointment.customerPhone,
         InfoOf(appointment,
                Or(body.appointmentDate, appointment.appointmentDate),
                Or(body.appointmentTime, appointment.appointmentTime)), oc))
  ELSE IF body.status = "cancelled"
  THEN Caught(sendTextMessage(e, appointment.customerPhone, "cancelledByBusiness",
         <<appointment.serviceName, appointment.appointmentDate,
           appointment.appointmentTime>>, oc))
  ELSE e

\* AppointmentController.updateAppointment
updateAppointment(e, uid, id, body, oc, fail) ==
  Let(StoreCall(e, fail), LAMBDA g :
    IF g.threw THEN Response(500, Str("Failed to update appointment"), Caught(g))
    ELSE IF id \notin DOMAIN g.appts
    THEN Response(404, Str("Appointment not found"), g)
    ELSE IF g.appts[id].parlourId # uid
    THEN Response(403, Str("Access denied to this appointment"), g)
    ELSE IF body.customerPhone # <<>> /\ ~body.phoneIsString
    THEN Response(500, Str("Failed to update appointment"), g)
    ELSE Let(StoreCall(g, fail), LAMBDA u :
      IF u.threw
      THEN Response(500, Str("Failed to update appointment"), Caught(u))
      ELSE Response(200, Str("Appointment updated successfully"),
                    StatusNotified(Updated(u, id, body), g.appts[id], body, oc))))

\* appointmentRef.delete() in the place of the update of deleteAppointment
Removed(e, id) ==
  [e EXCEPT !.writes = @ + 1,
            !.appts = [k \in DOMAIN @ \ {id} |-> @[k]]]

\* appointmentRef.update({status: 'cancelled', updatedAt}) of deleteAppointment
Deleted(e, id) ==
  [e EXCEPT !.writes = @ + 1,
            !.appts[id].status = "cancelled",
            !.appts[id].updatedAt = now]

\* deleteAppointment without the comparison of appointment.parlourId with uid
AnyOwner(e, uid, id, oc, fail) ==
  Let(StoreCall(e, fail), LAMBDA g :
    IF g.threw THEN Response(500, Str("Failed to cancel appointment"), Caught(g))
    ELSE IF id \notin DOMAIN g.appts
    THEN Response(404, Str("Appointment not found"), g)
    ELSE Response(200, Str("Appointment cancelled successfully"),
                  Deleted(StoreCall(g, fail), id)))

\* AppointmentController.deleteAppointment
deleteAppointment(e, uid, id, oc, fail) ==
  Let(StoreCall(e, fail), LAMBDA g :
    IF g.threw THEN Response(500, Str("Failed to cancel appointment"), Caught(g))
    ELSE IF id \notin DOMAIN g.appts
    THEN Response(404, Str("Appointment not found"), g)
    ELSE IF g.appts[id].parlourId # uid
    THEN Response(403, Str("Access denied to this appointment"), g)
    ELSE Let(StoreCall(g, fail), LAMBDA u :
      IF u.threw
      THEN Response(500, Str("Failed to cancel appointment"), Caught(u))
      ELSE Response(200, Str("Appointment cancelled successfully"),
             IF g.appts[id].customerPhone = <<>> THEN Deleted(u, id)
             ELSE Caught(sendTextMessage(Deleted(u, id), g.appts[id].customerPhone,
                    "cancelledByBusiness",
                    <<g.appts[id].serviceName, g.appts[id].appointmentDate,
                      g.appts[id].appointmentTime>>, oc)))))

\* POST /api/appointments
CreateAppointment(Owners, Bodies, Outs, Fails, Ids) ==
  \E uid \in Owners, body \in Bodies, oc \in Outs, fail \in Fails,
     ids \in IdLists(Ids \ DOMAIN appointments) :
    /\ Len(ids) <= 1
    /\ Answered("createAppointment",
                [uid |-> uid, body |-> body, oc |-> oc, fail |-> fail],
                createAppointment(Effects(appointments), uid, body, oc, fail,
                                  NextId(ids)),
                ids)
    /\ UNCHANGED <<authUsers, users, pending, inFlight, env, tz, now, profiles>>

\* PATCH /api/appointments/:id
UpdateAppointment(Owners, Ids, Bodies, Outs, Fails) ==
  \E uid \in Owners, id \in Ids, body \in Bodies, oc \in Outs, fail \in Fails :
    /\ Answered("updateAppointment",
                [uid |-> uid, id |-> id, body |-> body, oc |-> oc, fail |-> fail],
                updateAppointment(Effects(appointments), uid, id, body, oc, fail),
                <<>>)
    /\ UNCHANGED <<authUsers, users, pending, inFlight, env, tz, now, profiles>>

\* DELETE /api/appointments/:id
DeleteAppointment(Owners, Ids, Outs, Fails) ==
  \E uid \in Owners, id \in Ids, oc \in Outs, fail \in Fails :
    /\ Answered("deleteAppointment",
                [uid |-> uid, id |-> id, oc |-> oc, fail |-> fail],
                deleteAppointment(Effects(appointments), uid, id, oc, fail),
                <<>>)
    /\ UNCHANGED <<authUsers, users, pending, inFlight, env, tz, now, profiles>>

(***************************************************************************)
(* The appointments of a parlour, made and changed by its owner over REST  *)
(* and made by its customers over the messaging channel                    *)
(***************************************************************************)
Walk(customerPhone, phoneIsString) ==
  AppointmentBody(Str("Asha"), customerPhone, phoneIsString, Str("Haircut"),
                  Str("2025-05-20"), Str("10:00"), "")

\* the phone number is given with and without "+", or is left out, or is a
\* number
NewBodies ==
  { Walk(Str("7"), TRUE), Walk(Str("+7"), TRUE), Walk(<<>>, TRUE),
    Walk(<<"7">>, FALSE) }

Change1(customerPhone, phoneIsString, status) ==
  AppointmentBody(<<>>, customerPhone, phoneIsString, <<>>, <<>>, <<>>, status)

ChangeBodies ==
  { Change1(Str("8"), TRUE, ""), Change1(Str("+8"), TRUE, "confirmed"),
    Change1(<<>>, TRUE, "cancelled"), Change1(<<"8">>, FALSE, "") }

Init == InitWith({Tokens2("tokV", "tokA")}, {0}, OneParlour)

Next ==
  \/ CreateAppointment(Uids, NewBodies, {FirstOkAt(1), FirstOkAt(2)}, {0, 2}, OneId)
  \/ UpdateAppointment({"u1"}, OneId, ChangeBodies, {FirstOkAt(1)}, {0, 2})
  \/ DeleteAppointment(Uids, OneId, {FirstOkAt(1)}, {0})
  \/ ProcessMessage({HookBooking}, {Str("+7")}, {FirstOkAt(1)}, {0}, OneId)

Spec == Init /\ [][Next]_vars

StatusBodies ==
  { Change1(<<>>, TRUE, status) :
      status \in {"scheduled", "confirmed", "completed", "archived"} }

StatusMessages ==
  { HookBooking,
    CancelButton(Str("7"), Str("ab12cd34")),
    ButtonReply(Str("7"), Str("CONFIRM_ab12cd34x")) }

InitStatus == InitWith({Tokens2("tokV", "tokA")}, {0}, OneParlour)

NextStatus ==
  \/ ProcessMessage(StatusMessages, {Str("+7")}, {FirstOkAt(1)}, {0, 3}, OneId)
  \/ UpdateAppointment({"u1"}, OneId, StatusBodies, {FirstOkAt(1)}, {0, 2})
  \/ DeleteAppointment({"u1"}, OneId, {FirstOkAt(1)}, {0})

SpecStatus == InitStatus /\ [][NextStatus]_vars

Statuses == {"scheduled", "confirmed", "completed", "cancelled", "noShow"}

Forward ==
  { <<"scheduled", "confirmed">>, <<"confirmed", "completed">>,
    <<"scheduled", "cancelled">>, <<"confirmed", "cancelled">> }

\* C11: every change of the status of a stored appointment is one of
\* scheduled -> confirmed, confirmed -> completed, scheduled -> cancelled
\* and confirmed -> cancelled, and every status is one of scheduled,
\* confirmed, completed, cancelled and noShow
C11_StatusForward ==
  [][ /\ \A id \in DOMAIN appointments \cap DOMAIN appointments' :
           appointments'[id].status # appointments[id].status
             => <<appointments[id].status, appointments'[id].status>> \in Forward
      /\ \A id \in DOMAIN appointments' :
           appointments'[id].status \in Statuses ]_vars

\* an appointment that its customer has cancelled is confirmed
C11_Witness ==
  \E id \in DOMAIN appointments :
    /\ appointments[id].status = "confirmed"
    /\ AuditLines(appointments[id]) >= 1

(***************************************************************************)
(* DELETE /api/appointments/:id keeps the document                         *)
(***************************************************************************)
RestOps == {"createAppointment", "updateAppointment", "deleteAppointment"}

\* the fields of an appointment other than status and updatedAt
Kept(appointment) ==
  [k \in DOMAIN appointment \ {"status", "updatedAt"} |-> appointment[k]]

\* C12: deleteAppointment by the owner of an appointment never removes the
\* document: after the call it is stored under the same id with every field
\* other than status and updatedAt unchanged, and with status 'cancelled'
\* when the call succeeded; no REST appointment operation makes the number
\* of stored appointments smaller
C12_DeleteKeepsRecord ==
  [][ /\ ( /\ last'.op = "deleteAppointment"
           /\ last'.req.id \in DOMAIN appointments
           /\ appointments[last'.req.id].parlourId = last'.req.uid )
         => /\ last'.req.id \in DOMAIN appointments'
            /\ Kept(appointments'[last'.req.id]) = Kept(appointments[last'.req.id])
            /\ last'.status = 200
                 => appointments'[last'.req.id].status = "cancelled"
      /\ last'.op \in RestOps
           => Cardinality(DOMAIN appointments') >= Cardinality(DOMAIN appointments)
    ]_vars

\* the owner has deleted an appointment that was not cancelled before
C12_Witness ==
  /\ last.op = "deleteAppointment"
  /\ last.status = 200
  /\ last.writes = 1
  /\ last.req.id \in DOMAIN appointments
  /\ appointments[last.req.id].status = "cancelled"
  /\ appointments[last.req.id].parlourId = last.req.uid

(***************************************************************************)
(* One business for a channel identifier                                   *)
(***************************************************************************)
\* C13: no two stored business profiles have the same whatsappNumber
C13_NumberIsUnique ==
  \A a \in DOMAIN profiles, b \in DOMAIN profiles :
    profiles[a].whatsappNumber = profiles[b].whatsappNumber => a = b

\* two owners have saved their profiles, the later one just now
C13_Witness ==
  /\ last.op = "saveProfile"
  /\ last.status = 201
  /\ Cardinality(DOMAIN profiles) = 2

(***************************************************************************)
(* The services of a business: ProfileController.saveService and           *)
(* deleteService                                                           *)
(***************************************************************************)
\* a profile holds MaxServices services at most
MaxServices == 2

\* req.body of saveService
ServiceBody(name, duration, price) ==
  [name |-> name, duration |-> duration, price |-> price]

\* Date.now().toString(): the milliseconds of the clock, in decimal
DateNowString == Decimal(now * 6, 1) \o Str("0000")

\* services.findIndex(s => s.id === serviceId); 0 stands for -1
findIndex(services, serviceId) ==
  IF \E i \in DOMAIN services : services[i].id = serviceId
  THEN Min({i \in DOMAIN services : services[i].id = serviceId})
  ELSE 0

\* serviceData of saveService
serviceData(id, body) ==
  [id |-> id, name |-> body.name, duration |-> body.duration, price |-> body.price]

\* services.splice(serviceIndex, 1)
splice(services, serviceIndex) ==
  SubSeq(services, 1, serviceIndex - 1)
    \o SubSeq(services, serviceIndex + 1, Len(services))

\* profileRef.update({services, updatedAt})
ServicesUpdated(uid, services) ==
  Saved(200, [profiles EXCEPT ![uid].services = services])

\* ProfileController.saveService; serviceId is empty on the route that adds.
\* fail is the store call that is rejected: the get (1) or the update (2)
saveService(uid, serviceId, body, fail) ==
  IF body.name = <<>> \/ body.duration = 0 \/ body.price = 0
  THEN Saved(400, profiles)
  ELSE IF fail = 1 THEN Saved(500, profiles)
  ELSE IF uid \notin DOMAIN profiles THEN Saved(404, profiles)
  ELSE IF serviceId # <<>> /\ findIndex(profiles[uid].services, serviceId) = 0
  THEN Saved(404, profiles)
  ELSE IF fail = 2 THEN Saved(500, profiles)
  ELSE IF serviceId # <<>>
  THEN ServicesUpdated(uid,
         [profiles[uid].services
            EXCEPT ![findIndex(profiles[uid].services, serviceId)] =
                     serviceData(serviceId, body)])
  ELSE ServicesUpdated(uid,
         Append(profiles[uid].services, serviceData(DateNowString, body)))

\* ProfileController.deleteService
deleteService(uid, serviceId, fail) ==
  IF serviceId = <<>> THEN Saved(400, profiles)
  ELSE IF fail = 1 THEN Saved(500, profiles)
  ELSE IF uid \notin DOMAIN profiles THEN Saved(404, profiles)
  ELSE IF findIndex(profiles[uid].services, serviceId) = 0
  THEN Saved(404, profiles)
  ELSE IF fail = 2 THEN Saved(500, profiles)
  ELSE ServicesUpdated(uid,
         splice(profiles[uid].services,
                findIndex(profiles[uid].services, serviceId)))

\* the answer r of a service operation is sent
ServiceSaved(op, req, r) ==
  /\ \A uid \in DOMAIN r.profiles : Len(r.profiles[uid].services) <= MaxServices
  /\ profiles' = r.profiles
  /\ last' = Done(op, req, r.status, <<>>, Effects(NoDocs))

\* POST /api/profile/services and PUT /api/profile/services/:serviceId
SaveService(Owners, ServiceIds, Bodies, Fails) ==
  \E uid \in Owners, serviceId \in ServiceIds, body \in Bodies, fail \in Fails :
    /\ ServiceSaved("saveService",
                    [uid |-> uid, serviceId |-> serviceId, body |-> body,
                     fail |-> fail],
                    saveService(uid, serviceId, body, fail))
    /\ UNCHANGED <<authUsers, users, pending, inFlight, env, tz, now, appointments>>

\* DELETE /api/profile/services/:serviceId
DeleteService(Owners, ServiceIds, Fails) ==
  \E uid \in Owners, serviceId \in ServiceIds, fail \in Fails :
    /\ ServiceSaved("deleteService",
                    [uid |-> uid, serviceId |-> serviceId, fail |-> fail],
                    deleteService(uid, serviceId, fail))
    /\ UNCHANGED <<authUsers, users, pending, inFlight, env, tz, now, appointments>>

\* the ids that the clock of the run can give
ClockIds ==
  { Decimal((StartOfRun + k * TickMinutes) * 6, 1) \o Str("0000") : k \in 0..MaxTicks }

ServiceBodies ==
  { ServiceBody(Str("Haircut"), 30, 200),
    ServiceBody(Str("Massage"), 45, 0) }

CatalogBodies ==
  { ProfileBody(Str("Glow"), Str("+7"), services, Hours) :
      services \in { <<>>,
                     << Service("s1", Str("Haircut"), 30, 200) >>,
                     << Service("s1", Str("Haircut"), 30, 200),
                        Service("s1", Str("Massage"), 45, 500) >> } }

InitCatalog == InitWith({Tokens2("tokV", "tokA")}, {0}, NoDocs)

NextCatalog ==
  \/ SaveProfile({"u1"}, CatalogBodies, {0, 2})
  \/ SaveService({"u1"}, {<<>>, Str("s1")} \cup ClockIds, ServiceBodies, {0, 2})
  \/ DeleteService({"u1"}, {<<>>, Str("s1")} \cup ClockIds, {0, 2})
  \/ Tick

SpecCatalog == InitCatalog /\ [][NextCatalog]_vars

\* C14: the ids of the services of one profile are pairwise distinct
C14_ServiceIdsDistinct ==
  \A uid \in DOMAIN profiles :
    \A i \in DOMAIN profiles[uid].services, j \in DOMAIN profiles[uid].services :
      profiles[uid].services[i].id = profiles[uid].services[j].id => i = j

\* a second service has been added to a profile
C14_Witness ==
  /\ last.op = "saveService"
  /\ last.status = 200
  /\ last.req.serviceId = <<>>
  /\ \E uid \in DOMAIN profiles : Len(profiles[uid].services) = 2

(***************************************************************************)
(* AdminController.deleteUser.  The handler awaits the query for the       *)
(* appointments of the account before it builds and commits its batch, so  *)
(* other requests are served between the query and the commit: the handler *)
(* is two steps, and pending holds the snapshot between them.              *)
(***************************************************************************)
Without(docs, ids) == [k \in DOMAIN docs \ ids |-> docs[k]]

Purge(status, accounts, documents, call) ==
  [status |-> status, authUsers |-> accounts, users |-> documents, pending |-> call]

\* db.collection('appointments').where('parlourId', '==', id).get()
appointmentsSnapshot(id) ==
  {k \in DOMAIN appointments : appointments[k].parlourId = id}

\* deleteUser up to the snapshot of the appointments; fail is the call that
\* is rejected: auth.deleteUser (2), the delete of the users document (3),
\* the query (4).  Status 0: the handler waits for its batch
deleteUserQuery(id, fail) ==
  IF id \notin DOMAIN authUsers THEN Purge(404, authUsers, users, NoCall)
  ELSE IF fail = 2 THEN Purge(500, authUsers, users, NoCall)
  ELSE IF fail = 3 THEN Purge(500, Without(authUsers, {id}), users, NoCall)
  ELSE IF fail = 4
  THEN Purge(500, Without(authUsers, {id}), Without(users, {id}), NoCall)
  ELSE Purge(0, Without(authUsers, {id}), Without(users, {id}),
             [id |-> id, snapshot |-> appointmentsSnapshot(id)])

\* DELETE /api/admin/users/:id, to the end of the query
DeleteUserQuery(Ids, Fails) ==
  \E id \in Ids, fail \in Fails :
    /\ pending = NoCall
    /\ authUsers' = deleteUserQuery(id, fail).authUsers
    /\ users' = deleteUserQuery(id, fail).users
    /\ pending' = deleteUserQuery(id, fail).pending
    /\ last' = Done("deleteUser", [id |-> id, fail |-> fail],
                    deleteUserQuery(id, fail).status, <<>>, Effects(NoDocs))
    /\ UNCHANGED <<env, tz, now, profiles, appointments, inFlight>>

\* batch.commit(): the appointments of the snapshot and the profile go in
\* one write, or not at all when the commit is rejected (fail = 5)
DeleteUserCommit(Fails) ==
  \E fail \in Fails :
    /\ pending # NoCall
    /\ appointments' = IF fail = 5 THEN appointments
                       ELSE Without(appointments, pending.snapshot)
    /\ profiles' = IF fail = 5 THEN profiles
                   ELSE Without(profiles, {pending.id})
    /\ pending' = NoCall
    /\ last' = Done("deleteUser", [id |-> pending.id, fail |-> fail],
                    IF fail = 5 THEN 500 ELSE 200, <<>>,
                    [Effects(NoDocs) EXCEPT !.writes =
                       IF fail = 5 THEN 0
                       ELSE Cardinality(pending.snapshot \cap DOMAIN appointments) + 1])
    /\ UNCHANGED <<env, tz, now, authUsers, users, inFlight>>

InitPurge == InitWith({Tokens2("tokV", "tokA")}, {0}, OneParlour)

NextPurge ==
  \/ ProcessMessage({HookBooking}, {Str("+7")}, {FirstOkAt(1)}, {0}, TwinIds)
  \/ DeleteAppointment({"u1"}, TwinIds, {FirstOkAt(1)}, {0})
  \/ DeleteUserQuery({"u1", "u3"}, {0, 2, 3, 4})
  \/ DeleteUserCommit({0, 5})

SpecPurge == InitPurge /\ [][NextPurge]_vars

\* C15: when deleteUser has answered 200 there is no appointment whose
\* parlourId is the deleted account, and no profile of the account, also
\* when bookings for the business arrive while deleteUser runs
C15_NoAppointmentAfterDelete ==
  (last.op = "deleteUser" /\ last.status = 200)
    => /\ \A k \in DOMAIN appointments : appointments[k].parlourId # last.req.id
       /\ last.req.id \notin DOMAIN profiles

\* deleteUser has removed an appointment and the profile of the account
C15_Witness ==
  /\ last.op = "deleteUser"
  /\ last.status = 200
  /\ last.writes >= 2

(***************************************************************************)
(* Accounts: AuthController.register, AdminController.createUser and       *)
(* updateUser.  Of an account the model keeps the email, the name and the  *)
(* custom claims; of a users document the email, the name, role and plan.  *)
(* An empty string is a field that the request body does not have.         *)
(***************************************************************************)
UserBody(email, password, fullName, phoneNumber, role, plan) ==
  [email |-> email, password |-> password, fullName |-> fullName,
   phoneNumber |-> phoneNumber, role |-> role, plan |-> plan]

Signed(status, accounts, documents) ==
  [status |-> status, authUsers |-> accounts, users |-> documents]

\* auth.getUserByEmail(email)
getUserByEmail(email) == {uid \in DOMAIN authUsers : authUsers[uid].email = email}

\* role = 'parlourOwner', plan = 'free': the defaults of the destructuring
Default(value, default) == IF value = "" THEN default ELSE value

\* auth.createUser({email, password, displayName, phoneNumber})
Created(uid, body) ==
  (uid :> userRecord(body.email, body.fullName, Unset, Unset)) @@ authUsers

\* auth.setCustomUserClaims(uid, {role, plan})
Claimed(accounts, uid, role, plan) ==
  [accounts EXCEPT ![uid].customClaims = [role |-> role, plan |-> plan]]

\* AuthController.register; uid is the id that auth.createUser gives.  fail
\* is the call that is rejected: createUser (1), setCustomUserClaims (2),
\* the set of the users document (3)
register(uid, body, fail) ==
  IF body.email = "" \/ body.password = "" \/ body.fullName = ""
       \/ body.phoneNumber = ""
  THEN Signed(400, authUsers, users)
  ELSE IF fail = 1 \/ getUserByEmail(body.email) # {}
  THEN Signed(500, authUsers, users)
  ELSE IF fail = 2 THEN Signed(500, Created(uid, body), users)
  ELSE IF fail = 3
  THEN Signed(500, Claimed(Created(uid, body), uid, "parlourOwner", "free"), users)
  ELSE Signed(201, Claimed(Created(uid, body), uid, "parlourOwner", "free"),
              (uid :> User(body.email, body.fullName, "parlourOwner", "free"))
                @@ users)

\* AdminController.createUser; fail is the call that is rejected:
\* createUser (2), setCustomUserClaims (3), the set of the document (4)
createUser(uid, body, fail) ==
  IF body.email = "" \/ body.password = "" \/ body.fullName = ""
  THEN Signed(400, authUsers, users)
  ELSE IF getUserByEmail(body.email) # {} THEN Signed(400, authUsers, users)
  ELSE IF fail = 2 THEN Signed(500, authUsers, users)
  ELSE IF fail = 3 THEN Signed(500, Created(uid, body), users)
  ELSE IF fail = 4
  THEN Signed(500, Claimed(Created(uid, body), uid,
                           Default(body.role, "parlourOwner"),
                           Default(body.plan, "free")), users)
  ELSE Signed(201, Claimed(Created(uid, body), uid,
                           Default(body.role, "parlourOwner"),
                           Default(body.plan, "free")),
              (uid :> User(body.email, body.fullName,
                           Default(body.role, "parlourOwner"),
                           Default(body.plan, "free"))) @@ users)

\* auth.updateUser(id, authUpdates)
AuthUpdated(id, body) ==
  IF body.fullName = "" THEN authUsers
  ELSE [authUsers EXCEPT ![id].displayName = body.fullName]

\* auth.setCustomUserClaims(id, {...currentCustomClaims, role: role ||
\* currentCustomClaims.role, plan: plan || currentCustomClaims.plan})
ClaimsUpdated(accounts, id, body) ==
  IF body.role = "" /\ body.plan = "" THEN accounts
  ELSE Claimed(accounts, id,
               Default(body.role, authUsers[id].customClaims.role),
               Default(body.plan, authUsers[id].customClaims.plan))

\* db.collection('users').doc(id).update(updates)
DocUpdated(id, body) ==
  [users EXCEPT ![id].fullName = Default(body.fullName, @),
                ![id].role = Default(body.role, @),
                ![id].plan = Default(body.plan, @)]

\* AdminController.updateUser; fail is the call that is rejected:
\* auth.updateUser (2), setCustomUserClaims (3), the update of the users
\* document (4), which is also rejected when there is no document
updateUser(id, body, fail) ==
  IF id \notin DOMAIN authUsers THEN Signed(404, authUsers, users)
  ELSE IF fail = 2 /\ (body.fullName # "" \/ body.phoneNumber # "" \/ body.password # "")
  THEN Signed(500, authUsers, users)
  ELSE IF fail = 3 /\ (body.role # "" \/ body.plan # "")
  THEN Signed(500, AuthUpdated(id, body), users)
  ELSE IF fail = 4 \/ id \notin DOMAIN users
  THEN Signed(500, ClaimsUpdated(AuthUpdated(id, body), id, body), users)
  ELSE Signed(200, ClaimsUpdated(AuthUpdated(id, body), id, body),
              DocUpdated(id, body))

\* the answer r of an account operation is sent
AccountSaved(op, req, r) ==
  /\ authUsers' = r.authUsers
  /\ users' = r.users
  /\ last' = Done(op, req, r.status, <<>>, Effects(NoDocs))

\* POST /api/auth/register
Register(NewUids, Bodies, Fails) ==
  \E uid \in NewUids \ DOMAIN authUsers, body \in Bodies, fail \in Fails :
    /\ AccountSaved("register", [uid |-> uid, body |-> body, fail |-> fail],
                    register(uid, body, fail))
    /\ UNCHANGED <<env, tz, now, profiles, appointments, pending, inFlight>>

\* POST /api/admin/users
CreateUser(NewUids, Bodies, Fails) ==
  \E uid \in NewUids \ DOMAIN authUsers, body \in Bodies, fail \in Fails :
    /\ AccountSaved("createUser", [uid |-> uid, body |-> body, fail |-> fail],
                    createUser(uid, body, fail))
    /\ UNCHANGED <<env, tz, now, profiles, appointments, pending, inFlight>>

\* PUT /api/admin/users/:id
UpdateUser(Ids, Bodies, Fails) ==
  \E id \in Ids, body \in Bodies, fail \in Fails :
    /\ AccountSaved("updateUser", [id |-> id, body |-> body, fail |-> fail],
                    updateUser(id, body, fail))
    /\ UNCHANGED <<env, tz, now, profiles, appointments, pending, inFlight>>

RegisterBodies ==
  { UserBody("u3@glow", "pw", "New", "7", "", ""),
    UserBody("u3@glow", "pw", "New", "", "", "") }

CreateBodies ==
  { UserBody(email, "pw", "New", "", role, plan) :
      email \in {"u3@glow", "u1@glow"}, role \in {"", "admin"}, plan \in {"", "pro"} }

UpdateBodies ==
  { UserBody("", "", fullName, "", role, plan) :
      fullName \in {"", "New"}, role \in {"", "admin"}, plan \in {"", "pro"} }

InitUsers == InitWith({Tokens2("tokV", "tokA")}, {0}, OneParlour)

NextUsers ==
  \/ Register({"u3"}, RegisterBodies, {0, 1, 2, 3})
  \/ CreateUser({"u3"}, CreateBodies, {0, 2, 3, 4})
  \/ UpdateUser({"u3", "u9"}, UpdateBodies, {0, 2, 3, 4})

SpecUsers == InitUsers /\ [][NextUsers]_vars

\* C16: for every account that has a users document, the role and the plan
\* of its custom claims are the role and the plan of the document
C16_ClaimsEqualRecord ==
  \A uid \in DOMAIN authUsers \cap DOMAIN users :
    /\ authUsers[uid].customClaims.role = users[uid].role
    /\ authUsers[uid].customClaims.plan = users[uid].plan

\* the admin has changed the role of a registered account
C16_Witness ==
  /\ last.op = "updateUser"
  /\ last.status = 200
  /\ last.req.body.role = "admin"
  /\ last.req.id \in DOMAIN users
  /\ users[last.req.id].role = "admin"

(***************************************************************************)
(* The service of a booking text                                           *)
(***************************************************************************)
MatchCatalogs ==
  { Catalog,
    << Service("s2", Str("Haircut"), 30, 200),
       Service("s1", Words(<<"Hair", "Spa">>), 0, 900) >>,
    << Service("s1", Words(<<"Hair", "Spa">>), 0, 900),
       Service("s4", Str("Hair"), 20, 100) >>,
    << >> }

MatchTexts ==
  { TextMessage(Str("7"), <<"book", "hair", "on", "2025-05-20", "3PM">>),
    TextMessage(Str("7"), <<"Book", "HAIRCUT", "on", "2025-05-20", "3PM">>),
    TextMessage(Str("7"), <<"Book", "Nails", "on", "2025-05-20", "3PM">>),
    TextMessage(Str("7"), <<"Book", "Hair", "Spa", "tomorrow", "at", "2:30", "PM">>) }

InitMatch ==
  \E services \in MatchCatalogs :
    InitWith({Tokens2("tokV", "tokA")}, {0},
             "u1" :> Profile(Str("Glow"), Str("+7"), services, Hours))

NextMatch ==
  \/ ProcessMessage(MatchTexts, {Str("+7")}, {FirstOkAt(1), FirstOkAt(2)}, {0, 2},
                    TwinIds)
  \/ DeleteAppointment({"u1"}, TwinIds, {FirstOkAt(1)}, {0})

SpecMatch == InitMatch /\ [][NextMatch]_vars

\* the names of the services, with sep between them
RECURSIVE JoinWith(_, _)
JoinWith(services, sep) ==
  IF Len(services) = 1 THEN services[1].name
  ELSE services[1].name \o sep \o JoinWith(Tail(services), sep)

\* req is a text message that reaches the service matching of
\* handleBookingRequest
ServiceAsked(req) ==
  /\ req.message.type = "text"
  /\ ProfilesOf(req.phone_number_id) # {}
  /\ req.fail # 1
  /\ parseBookingMessage(trim(req.message.body)).matched

\* i is the service that the text t selects: the first whose name is t,
\* or when no name is t the first whose name contains t, letter case aside
Selects(services, t, i) ==
  LET same(k) == toLowerCase(services[k].name) = toLowerCase(t)
      has(k)  == includes(toLowerCase(services[k].name), toLowerCase(t))
  IN \/ same(i) /\ \A k \in 1..(i - 1) : ~same(k)
     \/ /\ \A k \in DOMAIN services : ~same(k)
        /\ has(i) /\ \A k \in 1..(i - 1) : ~has(k)

\* C17: a booking text for the service t is booked for the first service
\* whose name is t whatever the letter case, otherwise for the first service
\* in catalog order whose name contains t; when no service matches, the
\* reply lists the names of the catalog joined by ", " and no appointment is
\* created
C17_ServiceMatch ==
  [][ (last'.op = "processMessage" /\ ServiceAsked(last'.req))
        => LET services == profiles[CHOOSE uid \in ProfilesOf(last'.req.phone_number_id) : TRUE].services
               t == parseBookingMessage(trim(last'.req.message.body)).service
           IN IF \E i \in DOMAIN services : Selects(services, t, i)
              THEN /\ last'.sends[1].kind # "serviceNotFound"
                   /\ \A id \in NewAppointments :
                        \E i \in DOMAIN services :
                          /\ Selects(services, t, i)
                          /\ appointments'[id].serviceName = services[i].name
                          /\ appointments'[id].serviceId = services[i].id
              ELSE /\ last'.sends[1].kind = "serviceNotFound"
                   /\ last'.sends[1].data[2] =
                        (IF services = <<>> THEN Str("None")
                         ELSE JoinWith(services, Str(", ")))
                   /\ NewAppointments = {}
                   /\ last'.writes = 0 ]_vars

\* 'hair' has been booked in a catalog that has the service Hair after the
\* service Hair Spa
C17_Witness ==
  /\ last.op = "processMessage"
  /\ ServiceAsked(last.req)
  /\ toLowerCase(parseBookingMessage(trim(last.req.message.body)).service) = Str("hair")
  /\ Len(profiles["u1"].services) = 2
  /\ profiles["u1"].services[2].name = Str("Hair")
  /\ \E id \in DOMAIN appointments : appointments[id].serviceName = Str("Hair")

(***************************************************************************)
(* Weekday phrases: "next monday", "this friday"                           *)
(***************************************************************************)
\* this.parseDateExpression(dateStr.trim()) is called
ParseDateExpression(Expressions) ==
  \E expression \in Expressions :
    /\ last' = Done("parseDateExpression", [expression |-> expression], 0,
                    parseDateExpression(expression), Effects(NoDocs))
    /\ UNCHANGED <<env, tz, now, profiles, appointments, authUsers, users, pending, inFlight>>

\* this.parseComplexDate(dateStr) of the messaging service is called
ParseComplexDate(Expressions) ==
  \E dateStr \in Expressions :
    /\ last' = Done("parseComplexDate", [expression |-> dateStr], 0,
                    parseComplexDate(dateStr), Effects(NoDocs))
    /\ UNCHANGED <<env, tz, now, profiles, appointments, authUsers, users, pending, inFlight>>

\* "next monday", "this friday", ...: w is the weekday, 0 = sunday
WeekdayPhrase(word, w) == Str(word) \o Sp \o dayNames[w + 1]

WeekdayPhrases ==
  { WeekdayPhrase(word, w) : word \in {"next", "this", "Next"}, w \in 0..6 }
    \cup { Str("2025-05-20"), Words(<<"15th", "May">>) }

InitWeekday == InitWith({Tokens2("tokV", "tokA")}, Zones, OneParlour)

NextWeekday ==
  \/ ParseDateExpression(WeekdayPhrases)
  \/ ParseComplexDate(WeekdayPhrases)
  \/ Tick

SpecWeekday == InitWeekday /\ [][NextWeekday]_vars

\* the day number of the current date of the server
Today == (now + tz) \div MinutesPerDay

\* the weekday of the day with number n, 0 = sunday
WeekdayOf(n) == (n + 4) % 7

\* the first day from a to b days after Today that falls on the weekday w
FirstOn(w, a, b) ==
  Today + Min({k \in a..b : WeekdayOf(Today + k) = w})

\* C18: "next w" resolves to the first day among the 1st to the 7th day
\* after the current date that falls on the weekday w: seven days after
\* the current date when that date falls on w
C18_NextWeekday ==
  \A w \in 0..6 :
    /\ ( /\ last.op = "parseDateExpression"
         /\ last.req.expression \in {WeekdayPhrase("next", w), WeekdayPhrase("Next", w)} )
       => IsoDay(last.reply) = FirstOn(w, 1, 7)
    /\ ( /\ last.op = "parseComplexDate"
         /\ last.req.expression \in {WeekdayPhrase("next", w), WeekdayPhrase("Next", w)} )
       => /\ last.reply.valid
          /\ (last.reply.t + tz) \div MinutesPerDay = FirstOn(w, 1, 7)

\* "next w" has been resolved on a day that falls on w
C18_Witness ==
  /\ last.op = "parseDateExpression"
  /\ last.req.expression = WeekdayPhrase("next", WeekdayOf(Today))
  /\ IsIsoDate(last.reply)

\* C19: "this w" resolves to the first day among the current date and the
\* six days after it that falls on the weekday w: the current date itself
\* when it falls on w
C19_ThisWeekday ==
  \A w \in 0..6 :
    ( /\ last.op = "parseDateExpression"
      /\ last.req.expression = WeekdayPhrase("this", w) )
      => IsoDay(last.reply) = FirstOn(w, 0, 6)

\* "this w" has been resolved on a day that falls on w
C19_Witness ==
  /\ last.op = "parseDateExpression"
  /\ last.req.expression = WeekdayPhrase("this", WeekdayOf(Today))
  /\ IsIsoDate(last.reply)

(***************************************************************************)
(* The list that answers a bare "cancel"                                   *)
(***************************************************************************)
ListIds == {Str("ab12cd34x"), Str("cd34ef56y")}

ListMessages ==
  { TextMessage(Str("7"), <<"Book", "Haircut", "on", "2025-05-20", "9", "AM">>),
    TextMessage(Str("7"), <<"Book", "Massage", "on", "2025-05-20", "10", "AM">>),
    TextMessage(Str("8"), <<"Book", "Haircut", "on", "2025-05-20", "3", "PM">>),
    TextMessage(Str("7"), <<"cancel">>),
    TextMessage(Str("8"), <<"Cancel">>),
    CancelButton(Str("7"), Str("ab12cd34")) }

InitList == InitWith({Tokens2("tokV", "tokA")}, {0}, OneParlour)

NextList ==
  \/ ProcessMessage(ListMessages, {Str("+7")}, {FirstOkAt(1)}, {0, 2}, ListIds)
  \/ CreateAppointment({"u2"}, NewBodies, {FirstOkAt(1)}, {0}, ListIds)

SpecList == InitList /\ [][NextList]_vars

\* req is the text "cancel", in any letter case, on a registered channel
BareCancel(req) ==
  /\ req.message.type = "text"
  /\ toLowerCase(trim(req.message.body)) = Str("cancel")
  /\ ProfilesOf(req.phone_number_id) # {}
  /\ req.fail # 1

\* the minutes after midnight of a time such as "9 AM" or "3 PM"
ClockMinutes(time) ==
  ((parseInt(LeadingDigits(time)) % 12)
     + (IF includes(toLowerCase(time), Str("pm")) THEN 12 ELSE 0)) * 60

\* the appointment a is not later than the appointment b
NotLater(a, b) ==
  \/ IsoDay(a.appointmentDate) < IsoDay(b.appointmentDate)
  \/ /\ IsoDay(a.appointmentDate) = IsoDay(b.appointmentDate)
     /\ ClockMinutes(a.appointmentTime) <= ClockMinutes(b.appointmentTime)

\* the appointment that the reference code stands for
Listed(code) == appointments[CHOOSE id \in DOMAIN appointments : startsWith(id, code)]

\* C20: the reply to a bare "cancel" lists five appointments at most, each
\* by a reference code that is a prefix of its id; each is an appointment of
\* this business and of this customer that is scheduled or confirmed; they
\* are ordered by date and then by time, the earliest first; and nothing is
\* written to the store
C20_CancelList ==
  [][ (last'.op = "processMessage" /\ BareCancel(last'.req))
        => /\ appointments' = appointments
           /\ last'.writes = 0
           /\ last'.sends[1].kind = "cancelList"
                => LET codes == last'.sends[1].data
                       parlourId == CHOOSE uid \in ProfilesOf(last'.req.phone_number_id) : TRUE
                   IN /\ Len(codes) <= 5
                      /\ \A i \in DOMAIN codes :
                           /\ \E id \in DOMAIN appointments : startsWith(id, codes[i])
                           /\ Listed(codes[i]).parlourId = parlourId
                           /\ Listed(codes[i]).customerPhone
                                = formatPhone(last'.req.message.from)
                           /\ Listed(codes[i]).status \in {"scheduled", "confirmed"}
                      /\ \A i \in DOMAIN codes, j \in DOMAIN codes :
                           i < j => NotLater(Listed(codes[i]), Listed(codes[j])) ]_vars

\* a customer with two appointments has asked what can be cancelled
C20_Witness ==
  /\ last.op = "processMessage"
  /\ BareCancel(last.req)
  /\ last.sends[1].kind = "cancelList"
  /\ Len(last.sends[1].data) = 2

(***************************************************************************)
(* Working hours: ProfileController.updateWorkingHours and the text        *)
(* "hours"                                                                 *)
(***************************************************************************)
\* req.body of updateWorkingHours; given: the body has workingHours
HoursBody(given, workingHours) == [given |-> given, workingHours |-> workingHours]

\* ProfileController.updateWorkingHours; fail is the store call that is
\* rejected: the get (1) or the update (2)
updateWorkingHours(uid, body, fail) ==
  IF ~body.given THEN Saved(400, profiles)
  ELSE IF fail = 1 THEN Saved(500, profiles)
  ELSE IF uid \notin DOMAIN profiles THEN Saved(404, profiles)
  ELSE IF fail = 2 THEN Saved(500, profiles)
  ELSE Saved(200, [profiles EXCEPT ![uid].workingHours = body.workingHours])

\* PUT /api/profile/working-hours
UpdateWorkingHours(Owners, Bodies, Fails) ==
  \E uid \in Owners, body \in Bodies, fail \in Fails :
    /\ profiles' = updateWorkingHours(uid, body, fail).profiles
    /\ last' = Done("updateWorkingHours", [uid |-> uid, body |-> body, fail |-> fail],
                    updateWorkingHours(uid, body, fail).status, <<>>, Effects(NoDocs))
    /\ UNCHANGED <<env, tz, now, appointments, authUsers, users, pending, inFlight>>

\* every day of the week: closed on sunday, open without hours on saturday
FullWeek ==
  [day \in {WeekDays[i] : i \in 1..7} |->
     IF day = "sunday" THEN DayHours(TRUE, <<>>, <<>>)
     ELSE IF day = "saturday" THEN DayHours(FALSE, <<>>, <<>>)
     ELSE DayHours(FALSE, Str("10am"), Str("7pm"))]

HoursBodies ==
  { HoursBody(TRUE, FullWeek), HoursBody(TRUE, Hours), HoursBody(TRUE, NoDocs),
    HoursBody(FALSE, NoDocs) }

HoursMessages ==
  { TextMessage(Str("7"), <<"hours">>),
    TextMessage(Str("7"), <<"Hours">>),
    TextMessage(Str("7"), <<"timings">>),
    TextMessage(Str("8"), <<"hours">>),
    TextMessage(Str("7"), <<"Hi">>) }

InitHours == InitWith({Tokens2("tokV", "tokA")}, {0}, OneParlour)

NextHours ==
  \/ UpdateWorkingHours(Uids, HoursBodies, {0, 2})
  \/ ProcessMessage(HoursMessages, {Str("+7")}, SomeOutcomes, {0, 1}, {})

SpecHours == InitHours /\ [][NextHours]_vars

\* req is the text "hours" on a registered channel
HoursAsked(req) ==
  /\ req.message.type = "text"
  /\ toLowerCase(trim(req.message.body)) = Str("hours")
  /\ ProfilesOf(req.phone_number_id) # {}
  /\ req.fail # 1

\* the line of a day says Closed or gives a range
ClosedOrRange(line) ==
  \/ line.hours = Str("Closed")
  \/ includes(line.hours, Str(" - "))

\* the working hours of the business of the channel
HoursOf(req) ==
  profiles[CHOOSE uid \in ProfilesOf(req.phone_number_id) : TRUE].workingHours

\* C21 as stated: whatever working hours are stored, the text "hours"
\* writes nothing and is answered by exactly one text that gives, for each
\* of the seven days of the week, Closed or a range
C21_HoursEnumerated ==
  [][ (last'.op = "processMessage" /\ HoursAsked(last'.req))
        => /\ last'.writes = 0
           /\ appointments' = appointments
           /\ Len(last'.sends) = 1
           /\ last'.sends[1].kind = "workingHours"
           /\ \A i \in 1..7 :
                /\ last'.sends[1].data[i].day = WeekDays[i]
                /\ ClosedOrRange(last'.sends[1].data[i]) ]_vars

\* C21: the text "hours" writes nothing and is answered by a text to the
\* sender, the only message when that text is delivered.  When no working
\* hours are stored the text says so; otherwise it has a line for each of
\* the seven days of the week: Closed or a range for a day that the stored
\* hours have, "No information" for a day that they do not have
C21_HoursListed ==
  [][ (last'.op = "processMessage" /\ HoursAsked(last'.req))
        => /\ last'.writes = 0
           /\ appointments' = appointments
           /\ Len(last'.sends) >= 1
           /\ last'.sends[1].api = "text"
           /\ last'.sends[1].to = last'.req.message.from
           /\ last'.sends[1].ok => Len(last'.sends) = 1
           /\ IF DOMAIN HoursOf(last'.req) = {}
              THEN last'.sends[1].kind = "noHours"
              ELSE /\ last'.sends[1].kind = "workingHours"
                   /\ Len(last'.sends[1].data) = 7
                   /\ \A i \in 1..7 :
                        LET line == last'.sends[1].data[i]
                        IN /\ line.day = WeekDays[i]
                           /\ IF WeekDays[i] \in DOMAIN HoursOf(last'.req)
                              THEN ClosedOrRange(line)
                              ELSE line.hours = Str("No information") ]_vars

\* "hours" has been answered for a business that has stored hours for every
\* day of the week
C21_Witness ==
  /\ last.op = "processMessage"
  /\ HoursAsked(last.req)
  /\ DOMAIN HoursOf(last.req) = {WeekDays[i] : i \in 1..7}
  /\ last.sends[1].kind = "workingHours"
  /\ last.sends[1].ok

(***************************************************************************)
(* WhatsAppService: button messages, list messages and the interactive     *)
(* list of services                                                        *)
(***************************************************************************)
Button(id, title) == [id |-> id, title |-> title]

\* buttons.slice(0, 3), each title cut to 20 characters
buttonList(buttons) ==
  [i \in 1..Min({3, Len(buttons)}) |->
     Button(buttons[i].id, substring0(buttons[i].title, 20))]

\* WhatsAppService.sendButtonMessage: catch, log and throw
sendButtonMessage(e, to, bodyText, buttons, oc) ==
  Post(e, "button", bodyText, to, buttonList(buttons), oc)

\* WhatsAppService.sendListMessage: catch, log and throw
sendListMessage(e, to, bodyText, sections, oc) ==
  Post(e, "list", bodyText, to, sections, oc)

\* the rows of servicesSection: services.slice(0, 10)
servicesSection(services) ==
  [i \in 1..Min({10, Len(services)}) |->
     [id |-> Str("SERVICE_") \o services[i].id, title |-> services[i].name,
      description |-> <<services[i].duration, services[i].price>>]]

\* WhatsAppService.sendServicesList: the services as a text
whatsappService_sendServicesList(e, to, services, businessName, oc) ==
  IF Len(services) = 0
  THEN sendTextMessage(e, to, "noServices", <<businessName>>, oc)
  ELSE sendTextMessage(e, to, "servicesList",
                       [i \in 1..Len(services) |-> services[i].name], oc)

\* the interactive list without the catch of sendServicesListInteractive
NoTextFallback(e, to, services, businessName, oc) ==
  IF Len(services) = 0
  THEN sendTextMessage(e, to, "noServices", <<businessName>>, oc)
  ELSE sendListMessage(e, to, "servicesMenu", servicesSection(services), oc)

\* WhatsAppService.sendServicesListInteractive: the catch sends the text
sendServicesListInteractive(e, to, services, businessName, oc) ==
  Let(IF Len(services) = 0
      THEN sendTextMessage(e, to, "noServices", <<businessName>>, oc)
      ELSE sendListMessage(e, to, "servicesMenu", servicesSection(services), oc),
      LAMBDA tried :
    IF tried.threw
    THEN whatsappService_sendServicesList(Caught(tried), to, services,
                                          businessName, oc)
    ELSE tried)

SendButtonMessage(Tos, Texts, Buttons, Outs) ==
  \E to \in Tos, bodyText \in Texts, buttons \in Buttons, oc \in Outs :
    /\ Notified("sendButtonMessage", to, buttons, bodyText, oc,
                sendButtonMessage(Effects(appointments), to, bodyText, buttons, oc),
                "Failed to send WhatsApp button message")
    /\ UNCHANGED <<authUsers, users, pending, inFlight, env, tz, now, profiles, appointments>>

SendListMessage(Tos, Texts, Sections, Outs) ==
  \E to \in Tos, bodyText \in Texts, sections \in Sections, oc \in Outs :
    /\ Notified("sendListMessage", to, sections, bodyText, oc,
                sendListMessage(Effects(appointments), to, bodyText, sections, oc),
                "Failed to send WhatsApp list message")
    /\ UNCHANGED <<authUsers, users, pending, inFlight, env, tz, now, profiles, appointments>>

SendServicesListInteractive(Tos, Catalogs, Names, Outs) ==
  \E to \in Tos, services \in Catalogs, businessName \in Names, oc \in Outs :
    /\ Notified("sendServicesListInteractive", to, services, businessName, oc,
                sendServicesListInteractive(Effects(appointments), to, services,
                                            businessName, oc),
                "Failed to send WhatsApp message")
    /\ UNCHANGED <<authUsers, users, pending, inFlight, env, tz, now, profiles, appointments>>

YesNo ==
  << Button(Str("CONFIRM_ab12cd34x"), Str("Yes")),
     Button(Str("CANCEL_ab12cd34x"), Str("No")) >>

FourButtons ==
  YesNo \o << Button(Str("VIEW_HOURS"), Str("Our working hours this week")),
              Button(Str("VIEW_SERVICES"), Str("Services")) >>

InitPrompt == InitWith({Tokens2("tokV", "tokA")}, {0}, OneParlour)

NextPrompt ==
  \/ SendButtonMessage(Recipients, {"confirmPrompt", "menuPrompt"},
                       {YesNo, FourButtons, SubSeq(YesNo, 1, 1)}, TwoCalls)
  \/ SendListMessage(Recipients, {"datePrompt", "timePrompt"},
                     {servicesSection(Catalog), <<>>}, TwoCalls)
  \/ SendServicesListInteractive(Recipients, MatchCatalogs, {Str("Glow")}, TwoCalls)

SpecPrompt == InitPrompt /\ [][NextPrompt]_vars

Prompts == {"sendButtonMessage", "sendListMessage", "sendServicesListInteractive"}

\* C22 as stated: when a button message, a list message or the interactive
\* list of services is not delivered, the failure goes to the caller and no
\* other message is sent
C22_NoFallbackAtAll ==
  ( /\ last.op \in Prompts
    /\ last.sends[1].api \in {"button", "list"}
    /\ ~last.sends[1].ok )
    => /\ Len(last.sends) = 1
       /\ last.reply # Str("response.data")

\* C22: a button message and a list message are attempted once, and when
\* the attempt fails the failure goes to the caller; when the list of the
\* interactive list of services fails, the services are sent as one text in
\* its place, and the failure of that text goes to the caller
C22_FallbackOnlyForServices ==
  /\ last.op \in {"sendButtonMessage", "sendListMessage"}
       => /\ Len(last.sends) = 1
          /\ last.sends[1].api = (IF last.op = "sendButtonMessage" THEN "button"
                                  ELSE "list")
          /\ last.sends[1].ok <=> last.reply = Str("response.data")
  /\ (last.op = "sendServicesListInteractive" /\ last.sends[1].api = "list")
       => /\ last.sends[1].ok => Len(last.sends) = 1
          /\ ~last.sends[1].ok
               => /\ Len(last.sends) = 2
                  /\ last.sends[2].api = "text"
                  /\ last.sends[2].kind = "servicesList"
                  /\ last.sends[2].to = last.sends[1].to
                  /\ Len(last.sends[2].data) = Len(last.req.ad)
          /\ last.sends[Len(last.sends)].ok <=> last.reply = Str("response.data")

\* the list of the services was not delivered
C22_Witness ==
  /\ last.op = "sendServicesListInteractive"
  /\ last.sends[1].api = "list"
  /\ ~last.sends[1].ok

(***************************************************************************)
(* The frame of a cancellation by reference                                *)
(***************************************************************************)
\* req is a cancellation by button, every store call answered, whose
\* reference begins the id of an appointment of the business and the
\* customer that is not cancelled
CancelsLive(req) ==
  LET refCode == replaceFirst(req.message.body, Str("CANCEL_APPOINTMENT_"))
      parlourId == CHOOSE uid \in ProfilesOf(req.phone_number_id) : TRUE
  IN /\ req.message.type = "button"
     /\ startsWith(req.message.body, Str("CANCEL_APPOINTMENT_"))
     /\ ProfilesOf(req.phone_number_id) # {}
     /\ req.fail = 0
     /\ \E id \in Referred(appointments, req.message.from, refCode, parlourId) :
          appointments[id].status # "cancelled"

\* C23: a cancellation by a reference that begins the id of an appointment
\* of the business and the customer that is not cancelled changes exactly
\* one appointment, one of those: its status becomes cancelled and its notes
\* get one more cancellation line; every other appointment stays as it was,
\* and the customer is told of the cancellation
C23_CancelChangesOne ==
  [][ (last'.op = "processMessage" /\ CancelsLive(last'.req))
        => LET req == last'.req
               refCode == replaceFirst(req.message.body, Str("CANCEL_APPOINTMENT_"))
               parlourId == CHOOSE uid \in ProfilesOf(req.phone_number_id) : TRUE
           IN /\ \E id \in Referred(appointments, req.message.from, refCode, parlourId) :
                   /\ appointments[id].status # "cancelled"
                   /\ appointments' =
                        [appointments EXCEPT ![id].status = "cancelled",
                                             ![id].updatedAt = now,
                                             ![id].notes = Append(@, CancelNote)]
              /\ last'.writes = 1
              /\ last'.sends[1].kind = "cancelled"
              /\ last'.sends[1].to = req.message.from ]_vars

\* one of two appointments with the same reference has been cancelled
C23_Witness ==
  /\ last.op = "processMessage"
  /\ last.req.message.type = "button"
  /\ last.sends[1].kind = "cancelled"
  /\ last.writes = 1
  /\ Cardinality(DOMAIN appointments) = 2
  /\ \E id \in DOMAIN appointments : appointments[id].status = "scheduled"

(***************************************************************************)
(* The appointments of two parlours over REST: each owner reads, changes   *)
(* and cancels appointments by id, its own and the other's                 *)
(***************************************************************************)
\* AppointmentController.getAppointment; the reply of a 200 is the document
\* with its id
getAppointment(e, uid, id, fail) ==
  Let(StoreCall(e, fail), LAMBDA g :
    IF g.threw THEN Response(500, Str("Failed to get appointment"), Caught(g))
    ELSE IF id \notin DOMAIN g.appts
    THEN Response(404, Str("Appointment not found"), g)
    ELSE IF g.appts[id].parlourId # uid
    THEN Response(403, Str("Access denied to this appointment"), g)
    ELSE Response(200, <<id, g.appts[id]>>, g))

\* GET /api/appointments/:id
GetAppointment(Owners, Ids, Fails) ==
  \E uid \in Owners, id \in Ids, fail \in Fails :
    /\ Answered("getAppointment", [uid |-> uid, id |-> id, fail |-> fail],
                getAppointment(Effects(appointments), uid, id, fail), <<>>)
    /\ UNCHANGED <<authUsers, users, pending, inFlight, env, tz, now, profiles>>

BothParlours ==
  ("u1" :> Profile(Words(<<"Glow", "Salon">>), Str("+7"), Catalog, Hours))
  @@ ("u2" :> Profile(Words(<<"Hair", "House">>), Str("+8"), Catalog, Hours))

InitRest == InitWith({Tokens2("tokV", "tokA")}, {0}, BothParlours)

NextRest ==
  \/ CreateAppointment(Uids, {Walk(Str("7"), TRUE)}, {FirstOkAt(1)}, {0}, ListIds)
  \/ GetAppointment(Uids, ListIds, {0, 1})
  \/ UpdateAppointment(Uids, ListIds, {Change1(<<>>, TRUE, "confirmed"), Change1(Str("8"), TRUE, "")}, {FirstOkAt(1)}, {0, 1, 2})
  \/ DeleteAppointment(Uids, ListIds, {FirstOkAt(1)}, {0, 1, 2})

SpecRest == InitRest /\ [][NextRest]_vars

ByIdOps == {"getAppointment", "updateAppointment", "deleteAppointment"}

\* C24: getAppointment, updateAppointment and deleteAppointment, when the
\* store has answered the lookup, answer 404 for an id that is not stored and
\* 403 for an appointment of another parlour; in both cases nothing is
\* written, nothing is sent and the appointments are as they were
C24_MissingOrForeign ==
  [][ (last'.op \in ByIdOps /\ last'.req.fail # 1)
        => /\ last'.req.id \notin DOMAIN appointments
                => /\ last'.status = 404
                   /\ last'.reply = Str("Appointment not found")
           /\ ( /\ last'.req.id \in DOMAIN appointments
                /\ appointments[last'.req.id].parlourId # last'.req.uid )
                => /\ last'.status = 403
                   /\ last'.reply = Str("Access denied to this appointment")
           /\ last'.status \in {403, 404}
                => /\ last'.writes = 0
                   /\ last'.sends = <<>>
                   /\ appointments' = appointments ]_vars

\* the owner u2 has asked to cancel an appointment of u1 and was refused,
\* and the appointment is still scheduled
C24_Witness ==
  /\ last.op = "deleteAppointment"
  /\ last.status = 403
  /\ last.req.uid = "u2"
  /\ last.req.id \in DOMAIN appointments
  /\ appointments[last.req.id].parlourId = "u1"
  /\ appointments[last.req.id].status = "scheduled"
  /\ Cardinality(DOMAIN appointments) = 2

(***************************************************************************)
(* CustomerController.getCustomers: the customers of a parlour, collected  *)
(* from its appointments                                                   *)
(***************************************************************************)
\* the documents ids, in the order of a snapshot
InSnapshot(ids) ==
  [i \in 1..Cardinality(ids) |->
     CHOOSE x \in ids : Cardinality({y \in ids : ById(y, x)}) = i - 1]

\* customerMap.set(appointment.customerPhone, {...})
Customer(appointment) ==
  [customerPhone |-> appointment.customerPhone,
   customerName |-> appointment.customerName,
   customerId |-> IF "customerId" \in DOMAIN appointment
                  THEN appointment.customerId ELSE Str("undefined"),
   lastAppointment |-> appointment.appointmentDate,
   appointmentCount |-> 1]

\* the customer record as the first appointment has made it, counted again
FirstSeen(customer, appointment) ==
  [customer EXCEPT !.appointmentCount = @ + 1]

\* if (appointment.appointmentDate > customer.lastAppointment) ...;
\* customer.appointmentCount += 1
Again(customer, appointment) ==
  [customer EXCEPT
     !.lastAppointment = IF StrLess(@, appointment.appointmentDate)
                         THEN appointment.appointmentDate ELSE @,
     !.appointmentCount = @ + 1]

\* one step of snapshot.forEach: customers is Array.from(customerMap.values())
Counted(customers, appointment) ==
  IF \A i \in DOMAIN customers :
       customers[i].customerPhone # appointment.customerPhone
  THEN Append(customers, Customer(appointment))
  ELSE [i \in DOMAIN customers |->
          IF customers[i].customerPhone = appointment.customerPhone
          THEN Again(customers[i], appointment) ELSE customers[i]]

RECURSIVE customerMap(_, _)
customerMap(appts, ids) ==
  IF ids = <<>> THEN <<>>
  ELSE Counted(customerMap(appts, SubSeq(ids, 1, Len(ids) - 1)),
               appts[ids[Len(ids)]])

\* CustomerController.getCustomers
getCustomers(e, uid, fail) ==
  Let(StoreCall(e, fail), LAMBDA g :
    IF g.threw THEN Response(500, Str("Failed to get customers"), Caught(g))
    ELSE Response(200,
           customerMap(g.appts,
             InSnapshot({id \in DOMAIN g.appts : g.appts[id].parlourId = uid})),
           g))

\* GET /api/customers
GetCustomers(Owners, Fails) ==
  \E uid \in Owners, fail \in Fails :
    /\ Answered("getCustomers", [uid |-> uid, fail |-> fail],
                getCustomers(Effects(appointments), uid, fail), <<>>)
    /\ UNCHANGED <<authUsers, users, pending, inFlight, env, tz, now, profiles>>

Visit(customerPhone, appointmentDate) ==
  AppointmentBody(Str("Asha"), customerPhone, TRUE, Str("Haircut"),
                  appointmentDate, Str("10:00"), "")

VisitBodies ==
  { Visit(Str("7"), Str("2025-05-20")), Visit(Str("+7"), Str("2025-04-30")),
    Visit(Str("8"), Str("2025-05-20")) }

VisitIds == {Str("ab12cd34x"), Str("cd34ef56y"), Str("ef56gh78z")}

InitVisit == InitWith({Tokens2("tokV", "tokA")}, {0}, BothParlours)

NextVisit ==
  \/ CreateAppointment(Uids, VisitBodies, {FirstOkAt(1)}, {0}, VisitIds)
  \/ ProcessMessage({HookBooking}, {Str("+7")}, {FirstOkAt(1)}, {0}, VisitIds)
  \/ GetCustomers(Uids, {0, 1})

SpecVisit == InitVisit /\ [][NextVisit]_vars

\* the appointments of parlour uid for the phone number phone
VisitsOf(uid, phone) ==
  {id \in DOMAIN appointments :
     /\ appointments[id].parlourId = uid
     /\ appointments[id].customerPhone = phone}

RECURSIVE SumOf(_, _)
SumOf(customers, n) ==
  IF n = 0 THEN 0 ELSE customers[n].appointmentCount + SumOf(customers, n - 1)

\* C25: getCustomers answers with one entry for each customerPhone of the
\* caller's appointments and no other entry; the entry's appointmentCount is
\* the number of the caller's appointments with the phone and its
\* lastAppointment is the greatest of their appointmentDate; the counts add
\* up to the number of the caller's appointments
C25_CustomersCounted ==
  [][ (last'.op = "getCustomers" /\ last'.status = 200)
        => LET customers == last'.reply
               uid == last'.req.uid
               mine == {id \in DOMAIN appointments : appointments[id].parlourId = uid}
           IN /\ {customers[i].customerPhone : i \in DOMAIN customers}
                   = {appointments[id].customerPhone : id \in mine}
              /\ \A i, j \in DOMAIN customers :
                   customers[i].customerPhone = customers[j].customerPhone => i = j
              /\ \A i \in DOMAIN customers :
                   LET visits == VisitsOf(uid, customers[i].customerPhone)
                   IN /\ customers[i].appointmentCount = Cardinality(visits)
                      /\ \E id \in visits :
                           appointments[id].appointmentDate = customers[i].lastAppointment
                      /\ \A id \in visits :
                           ~StrLess(customers[i].lastAppointment,
                                    appointments[id].appointmentDate)
              /\ SumOf(customers, Len(customers)) = Cardinality(mine) ]_vars

\* the customer +7 has two appointments at the parlour u1, the one that the
\* snapshot gives first has the later date, and the other parlour has an
\* appointment too
C25_Witness ==
  /\ last.op = "getCustomers"
  /\ last.status = 200
  /\ last.req.uid = "u1"
  /\ \E i \in DOMAIN last.reply :
       /\ last.reply[i].appointmentCount = 2
       /\ last.reply[i].lastAppointment = Str("2025-05-20")
       /\ \E x, y \in VisitsOf("u1", last.reply[i].customerPhone) :
            /\ ById(x, y)
            /\ appointments[x].appointmentDate = Str("2025-05-20")
            /\ appointments[y].appointmentDate = Str("2025-04-30")

(***************************************************************************)
(* Bookings for "next <weekday>", written with "on" and with "for"         *)
(***************************************************************************)
\* "Book Haircut <word> next <weekday> 3 PM"
NextBooking(word, w) ==
  Message(Str("7"), "text",
          Str("Book Haircut ") \o Str(word) \o Sp \o WeekdayPhrase("next", w)
            \o Str(" 3 PM"), "")

NextDays == {1, 5}

NextMessages == {NextBooking(word, w) : word \in {"on", "for"}, w \in NextDays}

InitNextDay == InitWith({Tokens2("tokV", "tokA")}, Zones, OneParlour)

NextNextDay ==
  \/ ProcessMessage(NextMessages, {Str("+7")}, {FirstOkAt(1)}, {0, 2}, TwinIds)
  \/ Tick

SpecNextDay == InitNextDay /\ [][NextNextDay]_vars

\* C26: "Book Haircut on next <weekday> 3 PM" and "Book Haircut for next
\* <weekday> 3 PM", Haircut being a service of the catalog, each create one
\* appointment, dated on the first day after the current date that falls on
\* the weekday
C26_NextWeekdayBooked ==
  [][ \A word \in {"on", "for"}, w \in NextDays :
        ( /\ last'.op = "processMessage"
          /\ last'.req.message = NextBooking(word, w)
          /\ last'.req.fail = 0
          /\ Cardinality(DOMAIN appointments) < MaxAppts )
        => /\ Cardinality(NewAppointments) = 1
           /\ \A id \in NewAppointments :
                /\ appointments'[id].serviceName = Str("Haircut")
                /\ IsoDay(appointments'[id].appointmentDate) = FirstOn(w, 1, 7) ]_vars

\* "Book Haircut on next friday 3 PM" has made an appointment
C26_Witness ==
  /\ last.op = "processMessage"
  /\ last.req.message = NextBooking("on", 5)
  /\ last.writes = 1
  /\ \E id \in DOMAIN appointments :
       /\ appointments[id].createdAt = now
       /\ appointments[id].serviceName = Str("Haircut")

(***************************************************************************)
(* The dialogue of selections: a service, a date, a time, and the button   *)
(* that cancels the request                                                *)
(***************************************************************************)
SelectionReplies ==
  { ButtonMessage(Str("7"), Str("BOOK_SERVICE_s2")),
    ListReply(Str("7"), Str("SERVICE_s2")),
    ListReply(Str("7"), Str("SERVICE_s9")),
    ListReply(Str("7"), Str("DATE_tomorrow")),
    ListReply(Str("7"), Str("TIME_3 PM")),
    ButtonReply(Str("7"), Str("CANCEL_ab12cd34x")) }

InitSelect == InitWith({Tokens2("tokV", "tokA")}, {0}, OneParlour)

NextSelect ==
  \/ ProcessMessage(SelectionReplies \cup {HookBooking}, {Str("+7")}, SomeOutcomes, {0, 1}, OneId)
  \/ Tick

SpecSelect == InitSelect /\ [][NextSelect]_vars

\* the text that answers a selection, by the beginning of its id
PromptFor(message) ==
  IF startsWith(message.body, Str("DATE_")) THEN {"timePrompt"}
  ELSE IF startsWith(message.body, Str("TIME_")) THEN {"confirmPrompt"}
  ELSE IF startsWith(message.body, Str("CANCEL_")) THEN {"requestCancelled"}
  ELSE {"datePrompt", "serviceUnavailable"}

\* C27: a selection reply (BOOK_SERVICE_ button, SERVICE_, DATE_ or TIME_
\* list reply, CANCEL_ button reply) adds no appointment and changes none
\* and makes no store write; it sends the sender the prompt of its step
\* when the store has answered, an apology after a send that has failed,
\* and nothing else
C27_SelectionsBookNothing ==
  [][ (last'.op = "processMessage" /\ last'.req.message \in SelectionReplies)
        => /\ appointments' = appointments
           /\ last'.writes = 0
           /\ Len(last'.sends) \in 1..3
           /\ last'.req.fail = 0
                => last'.sends[1].kind \in PromptFor(last'.req.message)
           /\ \A n \in DOMAIN last'.sends :
                /\ last'.sends[n].api = "text"
                /\ last'.sends[n].to = last'.req.message.from
                /\ n > 1 => ~last'.sends[n - 1].ok ]_vars

\* a time has been selected while the customer has a scheduled appointment
\* at another time
C27_Witness ==
  /\ last.op = "processMessage"
  /\ last.req.message = ListReply(Str("7"), Str("TIME_3 PM"))
  /\ Len(last.sends) = 1
  /\ last.sends[1].kind = "confirmPrompt"
  /\ \E id \in DOMAIN appointments :
       /\ appointments[id].status = "scheduled"
       /\ appointments[id].updatedAt < now

(***************************************************************************)
(* Bookings for today and tomorrow, on servers in three zones              *)
(***************************************************************************)
DayBooking(day) ==
  TextMessage(Str("7"), <<"Book", "Haircut", day, "at", "3", "PM">>)

DayMessages ==
  { DayBooking("today"), DayBooking("tomorrow"),
    TextMessage(Str("7"), <<"Book", "Haircut", "on", "today", "3", "PM">>) }

InitToday == InitWith({Tokens2("tokV", "tokA")}, Zones, OneParlour)

NextToday ==
  \/ ProcessMessage(DayMessages, {Str("+7")}, {FirstOkAt(1), FirstOkAt(2)}, {0, 2}, TwinIds)
  \/ Tick

SpecToday == InitToday /\ [][NextToday]_vars

\* C28: a booking of Haircut, a service of the catalog, for today or for
\* tomorrow is not answered as being in the past and creates an appointment,
\* in every zone of the server and at every instant
C28_TodayNeverPast ==
  [][ ( /\ last'.op = "processMessage"
        /\ last'.req.message \in DayMessages
        /\ last'.req.fail = 0
        /\ Cardinality(DOMAIN appointments) < MaxAppts )
        => /\ \A n \in DOMAIN last'.sends : last'.sends[n].kind # "pastDate"
           /\ Cardinality(NewAppointments) = 1 ]_vars

\* a booking for today has been answered as being in the past
C28_Witness ==
  /\ last.op = "processMessage"
  /\ last.req.message = DayBooking("today")
  /\ last.req.fail = 0
  /\ Len(last.sends) >= 1
  /\ last.sends[1].kind = "pastDate"
  /\ last.writes = 0

(***************************************************************************)
(* Two parlours and two customers: confirmations and cancellations sent    *)
(* to either parlour by either customer                                    *)
(***************************************************************************)
ConfirmReply(from, bookingRef) == ButtonReply(from, Str("CONFIRM_") \o bookingRef)

OwnMessages ==
  { HookBooking,
    ConfirmReply(Str("7"), Str("ab12cd34x")), ConfirmReply(Str("8"), Str("ab12cd34x")),
    CancelButton(Str("7"), Str("ab12cd34")), CancelButton(Str("8"), Str("ab12cd34")) }

InitOwn == InitWith({Tokens2("tokV", "tokA")}, {0}, BothParlours)

NextOwn ==
  \/ ProcessMessage(OwnMessages, {Str("+7"), Str("+8")}, {FirstOkAt(1), FirstOkAt(2)}, {0, 3}, OneId)
  \/ Tick

SpecOwn == InitOwn /\ [][NextOwn]_vars

\* C29: a message changes the status only of appointments of the parlour
\* that has received it and of the customer who has sent it
C29_StatusChangeIsOwn ==
  [][ last'.op = "processMessage"
        => \A id \in DOMAIN appointments :
             appointments'[id].status # appointments[id].status
               => /\ appointments[id].parlourId
                       \in ProfilesOf(last'.req.phone_number_id)
                  /\ appointments[id].customerPhone
                       = formatPhone(last'.req.message.from) ]_vars

\* the customer 8 has pressed CONFIRM_ab12cd34x on the channel of the parlour
\* u2, and the appointment of the customer +7 at the parlour u1 is confirmed
C29_Witness ==
  /\ last.op = "processMessage"
  /\ last.req.message = ConfirmReply(Str("8"), Str("ab12cd34x"))
  /\ last.req.phone_number_id = Str("+8")
  /\ last.writes = 1
  /\ Str("ab12cd34x") \in DOMAIN appointments
  /\ appointments[Str("ab12cd34x")].parlourId = "u1"
  /\ appointments[Str("ab12cd34x")].customerPhone = Str("+7")
  /\ appointments[Str("ab12cd34x")].status = "confirmed"
  /\ appointments[Str("ab12cd34x")].updatedAt = now

(***************************************************************************)
(* saveService and deleteService of one profile, interleaved.  Each        *)
(* handler awaits profileRef.get() and later profileRef.update(): other    *)
(* requests are served between the two, so a handler is two steps, and     *)
(* inFlight holds the requests that have read the profile, each with the   *)
(* services array it has read.                                             *)
(***************************************************************************)
MaxInFlight == 2

ServiceCall(n, op, uid, serviceId, body, services) ==
  [n |-> n, op |-> op, uid |-> uid, serviceId |-> serviceId, body |-> body,
   services |-> services]

NoBody == ServiceBody(<<>>, 0, 0)

\* the handler to the end of `await profileRef.get()`: the status that it
\* answers with, or 0 when it goes on with the document it has read
ServiceRead(op, uid, serviceId, body, fail) ==
  IF op = "saveService" /\ (body.name = <<>> \/ body.duration = 0 \/ body.price = 0)
  THEN 400
  ELSE IF op = "deleteService" /\ serviceId = <<>> THEN 400
  ELSE IF fail = 1 THEN 500
  ELSE IF uid \notin DOMAIN profiles THEN 404
  ELSE 0

\* the services array of the handler after its changes to the array that it
\* has read: services[serviceIndex] = serviceData, services.push(serviceData),
\* services.splice(serviceIndex, 1)
ServicesOf(call) ==
  IF call.op = "deleteService"
  THEN splice(call.services, findIndex(call.services, call.serviceId))
  ELSE IF call.serviceId # <<>>
  THEN [call.services EXCEPT ![findIndex(call.services, call.serviceId)] =
                               serviceData(call.serviceId, call.body)]
  ELSE Append(call.services, serviceData(DateNowString, call.body))

\* the services array written over the array that the profile holds when
\* the update arrives
Rebased(call) ==
  ServicesOf([call EXCEPT !.services = profiles[call.uid].services])

\* the handler from the document it has read to its answer: fail is the
\* store call that is rejected
ServiceWrite(call, fail) ==
  IF call.serviceId # <<>> /\ findIndex(call.services, call.serviceId) = 0
  THEN Saved(404, profiles)
  ELSE IF fail = 2 THEN Saved(500, profiles)
  ELSE ServicesUpdated(call.uid, ServicesOf(call))

\* a request arrives and the handler runs to the end of profileRef.get()
ServiceGet(Ops, Owners, ServiceIds, Bodies, Fails) ==
  \E op \in Ops, uid \in Owners, serviceId \in ServiceIds, body \in Bodies,
     fail \in Fails, n \in 1..MaxInFlight :
    /\ \A c \in inFlight : c.n # n
    /\ op = "deleteService" => body = NoBody
    /\ inFlight' =
         IF ServiceRead(op, uid, serviceId, body, fail) # 0 THEN inFlight
         ELSE inFlight \cup {ServiceCall(n, op, uid, serviceId, body,
                                         profiles[uid].services)}
    /\ last' = Done(op, [n |-> n, uid |-> uid, serviceId |-> serviceId,
                         body |-> body, fail |-> fail],
                    ServiceRead(op, uid, serviceId, body, fail), <<>>,
                    Effects(NoDocs))
    /\ UNCHANGED <<env, tz, now, profiles, appointments, authUsers, users, pending>>

\* the handler of a request in flight runs from the document to its answer
ServiceUpdate(Fails) ==
  \E call \in inFlight, fail \in Fails :
    /\ ServiceSaved(call.op,
                    [n |-> call.n, uid |-> call.uid, serviceId |-> call.serviceId,
                     body |-> call.body, fail |-> fail],
                    ServiceWrite(call, fail))
    /\ inFlight' = inFlight \ {call}
    /\ UNCHANGED <<env, tz, now, appointments, authUsers, users, pending>>

ShelfBodies ==
  { ServiceBody(Str("Massage"), 45, 500), ServiceBody(Str("Facial"), 60, 300), NoBody }

Shelf == "u1" :> Profile(Str("Glow"), Str("+7"), <<Service("s1", Str("Haircut"), 30, 200)>>, Hours)

InitShelf == InitWith({Tokens2("tokV", "tokA")}, {0}, Shelf)

NextShelf ==
  \/ ServiceGet({"saveService", "deleteService"}, {"u1", "u2"}, {<<>>, Str("s1")}, ShelfBodies, {0, 1})
  \/ ServiceUpdate({0, 2})

SpecShelf == InitShelf /\ [][NextShelf]_vars

\* C30: a saveService or deleteService that answers 200 leaves the stored
\* services of the profile as the request makes them from the services that
\* were stored just before its update: what other requests have written
\* since the request has read the profile is kept
C30_NoLostUpdate ==
  [][ \A call \in inFlight :
        ( /\ last'.op \in {"saveService", "deleteService"}
          /\ last'.status = 200
          /\ last'.req.n = call.n
          /\ call \notin inFlight' )
        => profiles'[call.uid].services = Rebased(call) ]_vars

\* a request to add a service has answered 200 while another request to add
\* a service, which has read the profile before that update, is in flight
C30_Witness ==
  /\ last.op = "saveService"
  /\ last.status = 200
  /\ last.req.serviceId = <<>>
  /\ \E call \in inFlight :
       /\ call.op = "saveService"
       /\ call.serviceId = <<>>
       /\ call.uid = last.req.uid
       /\ call.body.name # last.req.body.name
       /\ Len(call.services) < Len(profiles[call.uid].services)

====
